---------------------------- MODULE Spec2Model ----------------------------
(***************************************************************************)
(* AstrA: a naive-Bayes style text classifier (package classifier).        *)
(*                                                                         *)
(*   src/classifier.go     stopwords, IsStopWord, IsNotStopWord            *)
(*   src/tokenizer.go      StdTokenizer.Tokenize: scan -> Filter -> Map    *)
(*   src/tokenizerutil.go  Map, Filter, Classifier (Train/Classify/GetProb)*)
(*                                                                         *)
(* Strings are sequences of Unicode code points (the order of code points  *)
(* is the byte order of their UTF-8 encoding, which is the order Go's      *)
(* string comparison uses).  float64 values are exact rationals <<n, d>>   *)
(* with d > 0, kept in lowest terms; rounding, overflow and underflow of   *)
(* float64 are not modelled.                                               *)
(***************************************************************************)
EXTENDS Integers, Sequences, FiniteSets, TLC

(***************************************************************************)
(* Strings                                                                 *)
(***************************************************************************)
Min(S) == CHOOSE x \in S : \A y \in S : x <= y

\* Go's < on strings: lexicographic on bytes.  The operands and the set of
\* positions that differ are bound as values before use.
StrLess(a, b) ==
  CHOOSE r \in
    {LET n == IF Len(x) < Len(y) THEN Len(x) ELSE Len(y)
     IN  CHOOSE q \in {IF diff = {} THEN Len(x) < Len(y)
                                   ELSE x[Min(diff)] < y[Min(diff)] :
                         diff \in {{i \in 1..n : x[i] # y[i]}}} : TRUE :
     x \in {a}, y \in {b}} : TRUE

\* Package unicode (Unicode 14 simple case mappings): MaxRune, the case
\* selectors of To, and UpperLower, the delta that marks a range of
\* alternating upper and lower case runes.
MaxRune == 1114111
UpperCase == 0
LowerCase == 1
UpperLower == MaxRune + 1

\* unicode.CaseRanges: <<Lo, Hi, delta to upper case, delta to lower case>>.
CaseRanges ==
  <<
     <<65,90,0,32>>, <<97,122,-32,0>>, <<181,181,743,0>>, <<192,214,0,32>>, <<216,222,0,32>>,
     <<224,246,-32,0>>, <<248,254,-32,0>>, <<255,255,121,0>>, <<256,303,UpperLower,UpperLower>>, <<304,304,0,-199>>,
     <<305,305,-232,0>>, <<306,311,UpperLower,UpperLower>>, <<313,328,UpperLower,UpperLower>>, <<330,375,UpperLower,UpperLower>>, <<376,376,0,-121>>,
     <<377,382,UpperLower,UpperLower>>, <<383,383,-300,0>>, <<384,384,195,0>>, <<385,385,0,210>>, <<386,389,UpperLower,UpperLower>>,
     <<390,390,0,206>>, <<391,392,UpperLower,UpperLower>>, <<393,394,0,205>>, <<395,396,UpperLower,UpperLower>>, <<398,398,0,79>>,
     <<399,399,0,202>>, <<400,400,0,203>>, <<401,402,UpperLower,UpperLower>>, <<403,403,0,205>>, <<404,404,0,207>>,
     <<405,405,97,0>>, <<406,406,0,211>>, <<407,407,0,209>>, <<408,409,UpperLower,UpperLower>>, <<410,410,163,0>>,
     <<412,412,0,211>>, <<413,413,0,213>>, <<414,414,130,0>>, <<415,415,0,214>>, <<416,421,UpperLower,UpperLower>>,
     <<422,422,0,218>>, <<423,424,UpperLower,UpperLower>>, <<425,425,0,218>>, <<428,429,UpperLower,UpperLower>>, <<430,430,0,218>>,
     <<431,432,UpperLower,UpperLower>>, <<433,434,0,217>>, <<435,438,UpperLower,UpperLower>>, <<439,439,0,219>>, <<440,441,UpperLower,UpperLower>>,
     <<444,445,UpperLower,UpperLower>>, <<447,447,56,0>>, <<452,452,0,2>>, <<453,453,-1,1>>, <<454,454,-2,0>>,
     <<455,455,0,2>>, <<456,456,-1,1>>, <<457,457,-2,0>>, <<458,458,0,2>>, <<459,459,-1,1>>,
     <<460,460,-2,0>>, <<461,476,UpperLower,UpperLower>>, <<477,477,-79,0>>, <<478,495,UpperLower,UpperLower>>, <<497,497,0,2>>,
     <<498,498,-1,1>>, <<499,499,-2,0>>, <<500,501,UpperLower,UpperLower>>, <<502,502,0,-97>>, <<503,503,0,-56>>,
     <<504,543,UpperLower,UpperLower>>, <<544,544,0,-130>>, <<546,563,UpperLower,UpperLower>>, <<570,570,0,10795>>, <<571,572,UpperLower,UpperLower>>,
     <<573,573,0,-163>>, <<574,574,0,10792>>, <<575,576,10815,0>>, <<577,578,UpperLower,UpperLower>>, <<579,579,0,-195>>,
     <<580,580,0,69>>, <<581,581,0,71>>, <<582,591,UpperLower,UpperLower>>, <<592,592,10783,0>>, <<593,593,10780,0>>,
     <<594,594,10782,0>>, <<595,595,-210,0>>, <<596,596,-206,0>>, <<598,599,-205,0>>, <<601,601,-202,0>>,
     <<603,603,-203,0>>, <<604,604,42319,0>>, <<608,608,-205,0>>, <<609,609,42315,0>>, <<611,611,-207,0>>,
     <<613,613,42280,0>>, <<614,614,42308,0>>, <<616,616,-209,0>>, <<617,617,-211,0>>, <<618,618,42308,0>>,
     <<619,619,10743,0>>, <<620,620,42305,0>>, <<623,623,-211,0>>, <<625,625,10749,0>>, <<626,626,-213,0>>,
     <<629,629,-214,0>>, <<637,637,10727,0>>, <<640,640,-218,0>>, <<642,642,42307,0>>, <<643,643,-218,0>>,
     <<647,647,42282,0>>, <<648,648,-218,0>>, <<649,649,-69,0>>, <<650,651,-217,0>>, <<652,652,-71,0>>,
     <<658,658,-219,0>>, <<669,669,42261,0>>, <<670,670,42258,0>>, <<837,837,84,0>>, <<880,883,UpperLower,UpperLower>>,
     <<886,887,UpperLower,UpperLower>>, <<891,893,130,0>>, <<895,895,0,116>>, <<902,902,0,38>>, <<904,906,0,37>>,
     <<908,908,0,64>>, <<910,911,0,63>>, <<913,929,0,32>>, <<931,939,0,32>>, <<940,940,-38,0>>,
     <<941,943,-37,0>>, <<945,961,-32,0>>, <<962,962,-31,0>>, <<963,971,-32,0>>, <<972,972,-64,0>>,
     <<973,974,-63,0>>, <<975,975,0,8>>, <<976,976,-62,0>>, <<977,977,-57,0>>, <<981,981,-47,0>>,
     <<982,982,-54,0>>, <<983,983,-8,0>>, <<984,1007,UpperLower,UpperLower>>, <<1008,1008,-86,0>>, <<1009,1009,-80,0>>,
     <<1010,1010,7,0>>, <<1011,1011,-116,0>>, <<1012,1012,0,-60>>, <<1013,1013,-96,0>>, <<1015,1016,UpperLower,UpperLower>>,
     <<1017,1017,0,-7>>, <<1018,1019,UpperLower,UpperLower>>, <<1021,1023,0,-130>>, <<1024,1039,0,80>>, <<1040,1071,0,32>>,
     <<1072,1103,-32,0>>, <<1104,1119,-80,0>>, <<1120,1153,UpperLower,UpperLower>>, <<1162,1215,UpperLower,UpperLower>>, <<1216,1216,0,15>>,
     <<1217,1230,UpperLower,UpperLower>>, <<1231,1231,-15,0>>, <<1232,1327,UpperLower,UpperLower>>, <<1329,1366,0,48>>, <<1377,1414,-48,0>>,
     <<4256,4293,0,7264>>, <<4295,4295,0,7264>>, <<4301,4301,0,7264>>, <<4304,4346,3008,0>>, <<4349,4351,3008,0>>,
     <<5024,5103,0,38864>>, <<5104,5109,0,8>>, <<5112,5117,-8,0>>, <<7296,7296,-6254,0>>, <<7297,7297,-6253,0>>,
     <<7298,7298,-6244,0>>, <<7299,7300,-6242,0>>, <<7301,7301,-6243,0>>, <<7302,7302,-6236,0>>, <<7303,7303,-6181,0>>,
     <<7304,7304,35266,0>>, <<7312,7354,0,-3008>>, <<7357,7359,0,-3008>>, <<7545,7545,35332,0>>, <<7549,7549,3814,0>>,
     <<7566,7566,35384,0>>, <<7680,7829,UpperLower,UpperLower>>, <<7835,7835,-59,0>>, <<7838,7838,0,-7615>>, <<7840,7935,UpperLower,UpperLower>>,
     <<7936,7943,8,0>>, <<7944,7951,0,-8>>, <<7952,7957,8,0>>, <<7960,7965,0,-8>>, <<7968,7975,8,0>>,
     <<7976,7983,0,-8>>, <<7984,7991,8,0>>, <<7992,7999,0,-8>>, <<8000,8005,8,0>>, <<8008,8013,0,-8>>,
     <<8017,8017,8,0>>, <<8019,8019,8,0>>, <<8021,8021,8,0>>, <<8023,8023,8,0>>, <<8025,8025,0,-8>>,
     <<8027,8027,0,-8>>, <<8029,8029,0,-8>>, <<8031,8031,0,-8>>, <<8032,8039,8,0>>, <<8040,8047,0,-8>>,
     <<8048,8049,74,0>>, <<8050,8053,86,0>>, <<8054,8055,100,0>>, <<8056,8057,128,0>>, <<8058,8059,112,0>>,
     <<8060,8061,126,0>>, <<8064,8071,8,0>>, <<8072,8079,0,-8>>, <<8080,8087,8,0>>, <<8088,8095,0,-8>>,
     <<8096,8103,8,0>>, <<8104,8111,0,-8>>, <<8112,8113,8,0>>, <<8115,8115,9,0>>, <<8120,8121,0,-8>>,
     <<8122,8123,0,-74>>, <<8124,8124,0,-9>>, <<8126,8126,-7205,0>>, <<8131,8131,9,0>>, <<8136,8139,0,-86>>,
     <<8140,8140,0,-9>>, <<8144,8145,8,0>>, <<8152,8153,0,-8>>, <<8154,8155,0,-100>>, <<8160,8161,8,0>>,
     <<8165,8165,7,0>>, <<8168,8169,0,-8>>, <<8170,8171,0,-112>>, <<8172,8172,0,-7>>, <<8179,8179,9,0>>,
     <<8184,8185,0,-128>>, <<8186,8187,0,-126>>, <<8188,8188,0,-9>>, <<8486,8486,0,-7517>>, <<8490,8490,0,-8383>>,
     <<8491,8491,0,-8262>>, <<8498,8498,0,28>>, <<8526,8526,-28,0>>, <<8544,8559,0,16>>, <<8560,8575,-16,0>>,
     <<8579,8580,UpperLower,UpperLower>>, <<9398,9423,0,26>>, <<9424,9449,-26,0>>, <<11264,11311,0,48>>, <<11312,11359,-48,0>>,
     <<11360,11361,UpperLower,UpperLower>>, <<11362,11362,0,-10743>>, <<11363,11363,0,-3814>>, <<11364,11364,0,-10727>>, <<11365,11365,-10795,0>>,
     <<11366,11366,-10792,0>>, <<11367,11372,UpperLower,UpperLower>>, <<11373,11373,0,-10780>>, <<11374,11374,0,-10749>>, <<11375,11375,0,-10783>>,
     <<11376,11376,0,-10782>>, <<11378,11379,UpperLower,UpperLower>>, <<11381,11382,UpperLower,UpperLower>>, <<11390,11391,0,-10815>>, <<11392,11491,UpperLower,UpperLower>>,
     <<11499,11502,UpperLower,UpperLower>>, <<11506,11507,UpperLower,UpperLower>>, <<11520,11557,-7264,0>>, <<11559,11559,-7264,0>>, <<11565,11565,-7264,0>>,
     <<42560,42605,UpperLower,UpperLower>>, <<42624,42651,UpperLower,UpperLower>>, <<42786,42799,UpperLower,UpperLower>>, <<42802,42863,UpperLower,UpperLower>>, <<42873,42876,UpperLower,UpperLower>>,
     <<42877,42877,0,-35332>>, <<42878,42887,UpperLower,UpperLower>>, <<42891,42892,UpperLower,UpperLower>>, <<42893,42893,0,-42280>>, <<42896,42899,UpperLower,UpperLower>>,
     <<42900,42900,48,0>>, <<42902,42921,UpperLower,UpperLower>>, <<42922,42922,0,-42308>>, <<42923,42923,0,-42319>>, <<42924,42924,0,-42315>>,
     <<42925,42925,0,-42305>>, <<42926,42926,0,-42308>>, <<42928,42928,0,-42258>>, <<42929,42929,0,-42282>>, <<42930,42930,0,-42261>>,
     <<42931,42931,0,928>>, <<42932,42947,UpperLower,UpperLower>>, <<42948,42948,0,-48>>, <<42949,42949,0,-42307>>, <<42950,42950,0,-35384>>,
     <<42951,42954,UpperLower,UpperLower>>, <<42960,42961,UpperLower,UpperLower>>, <<42966,42969,UpperLower,UpperLower>>, <<42997,42998,UpperLower,UpperLower>>, <<43859,43859,-928,0>>,
     <<43888,43967,-38864,0>>, <<65313,65338,0,32>>, <<65345,65370,-32,0>>, <<66560,66599,0,40>>, <<66600,66639,-40,0>>,
     <<66736,66771,0,40>>, <<66776,66811,-40,0>>, <<66928,66938,0,39>>, <<66940,66954,0,39>>, <<66956,66962,0,39>>,
     <<66964,66965,0,39>>, <<66967,66977,-39,0>>, <<66979,66993,-39,0>>, <<66995,67001,-39,0>>, <<67003,67004,-39,0>>,
     <<68736,68786,0,64>>, <<68800,68850,-64,0>>, <<71840,71871,0,32>>, <<71872,71903,-32,0>>, <<93760,93791,0,32>>,
     <<93792,93823,-32,0>>, <<125184,125217,0,34>>, <<125218,125251,-34,0>>
  >>

\* unicode.to: binary search of the range that holds r; the bounds are bound
\* as values (b) before use.
RECURSIVE to(_, _, _, _)
to(case, r, lo, hi) ==
  CHOOSE x \in {IF b[1] < b[2]
                THEN LET m == b[1] + (b[2] - b[1]) \div 2
                         cr == CaseRanges[m + 1]
                     IN  IF cr[1] <= r /\ r <= cr[2]
                         THEN IF cr[3 + case] > MaxRune
                              THEN cr[1] + (((r - cr[1]) \div 2) * 2 + case)
                              ELSE r + cr[3 + case]
                         ELSE IF r < cr[1] THEN to(case, r, b[1], m)
                                           ELSE to(case, r, m + 1, b[2])
                ELSE r : b \in {<<lo, hi>>}} : TRUE

\* The runes of CaseRanges, and unicode.To on each of them, computed once.
CasedRunes == UNION {CaseRanges[k][1]..CaseRanges[k][2] : k \in 1..Len(CaseRanges)}
ToLowerCase == [r \in CasedRunes |-> to(LowerCase, r, 0, Len(CaseRanges))]
ToUpperCase == [r \in CasedRunes |-> to(UpperCase, r, 0, Len(CaseRanges))]

\* unicode.ToLower: a rune outside CaseRanges is left as it is.
lowerRune(r) ==
  IF r <= 127
  THEN IF r >= 65 /\ r <= 90 THEN r + 32 ELSE r
  ELSE IF r \in CasedRunes THEN ToLowerCase[r] ELSE r

\* unicode.ToUpper.
upperRune(r) ==
  IF r <= 127
  THEN IF r >= 97 /\ r <= 122 THEN r - 32 ELSE r
  ELSE IF r \in CasedRunes THEN ToUpperCase[r] ELSE r

ToLower(v) == [i \in 1..Len(v) |-> lowerRune(v[i])]

ToUpper(v) == [i \in 1..Len(v) |-> upperRune(v[i])]

\* bufio.isSpace, the separator of bufio.ScanWords.
isSpace(r) ==
  \/ r \in {32, 9, 10, 11, 12, 13, 133, 160}
  \/ r >= 8192 /\ r <= 8202
  \/ r \in {5760, 8232, 8233, 8239, 8287, 12288}

(***************************************************************************)
(* Stopword list, in the order it is declared.                             *)
(***************************************************************************)
stopwords ==
  <<
     <<1084,1085,1077>>, <<1079,1076,1088,1072,1074,1089,1090,1074>>, <<99>>, <<1072>>,
     <<1072,1083,1083,1086>>, <<1073,1077,1079>>, <<1073,1077,1083,1099,1081>>, <<1073,1083,1080,1079,1082,1086>>,
     <<1073,1086,1083,1077,1077>>, <<1073,1086,1083,1100,1096,1077>>, <<1073,1086,1083,1100,1096,1086,1081>>, <<1073,1091,1076,1077,1084>>,
     <<1073,1091,1076,1077,1090>>, <<1073,1091,1076,1077,1090,1077>>, <<1073,1091,1076,1077,1096,1100>>, <<1073,1091,1076,1090,1086>>,
     <<1073,1091,1076,1091>>, <<1073,1091,1076,1091,1090>>, <<1073,1091,1076,1100>>, <<1074,1086,1089,1100,1084,1086,1081>>,
     <<1074,1086,1090>>, <<1074,1087,1088,1086,1095,1077,1084>>, <<1074,1088,1077,1084,1077,1085,1080>>, <<1074,1088,1077,1084,1103>>,
     <<1074,1089,1077>>, <<1074,1089,1077,32,1077,1097,1077>>, <<1074,1089,1077,1075,1076,1072>>, <<1074,1089,1077,1075,1086>>,
     <<1074,1089,1077,1084>>, <<1074,1089,1077,1084,1080>>, <<1074,1089,1077,1084,1091>>, <<1074,1089,1077,1093>>,
     <<1074,1089,1077,1102>>, <<1074,1089,1102>>, <<1074,1089,1102,1076,1091>>, <<1073,1099>>,
     <<1073,1099,1074,1072,1077,1090>>, <<1073,1099,1074,1100>>, <<1073,1099,1083>>, <<1073,1099,1083,1072>>,
     <<1073,1099,1083,1080>>, <<1073,1099,1083,1086>>, <<1073,1099,1090,1100>>, <<1074>>,
     <<1074,1072,1078,1085,1072,1103>>, <<1074,1072,1078,1085,1086,1077>>, <<1074,1072,1078,1085,1099,1077>>, <<1074,1072,1078,1085,1099,1081>>,
     <<1074,1072,1084>>, <<1074,1072,1084,1080>>, <<1074,1072,1089>>, <<1074,1072,1096>>,
     <<1074,1072,1096,1072>>, <<1074,1072,1096,1077>>, <<1074,1072,1096,1080>>, <<1074,1074,1077,1088,1093>>,
     <<1074,1076,1072,1083,1080>>, <<1074,1076,1088,1091,1075>>, <<1074,1077,1076,1100>>, <<1074,1077,1079,1076,1077>>,
     <<1074,1077,1088,1085,1091,1090,1100,1089,1103>>, <<1074,1077,1089,1100>>, <<1074,1077,1095,1077,1088>>, <<1074,1079,1075,1083,1103,1076>>,
     <<1074,1079,1103,1090,1100>>, <<1074,1080,1076>>, <<1074,1080,1076,1077,1083>>, <<1074,1080,1076,1077,1090,1100>>,
     <<1074,1084,1077,1089,1090,1077>>, <<1074,1085,1077>>, <<1074,1085,1080,1079>>, <<1074,1085,1080,1079,1091>>,
     <<1074,1086>>, <<1074,1086,1076,1072>>, <<1074,1086,1081,1085,1072>>, <<1074,1086,1082,1088,1091,1075>>,
     <<1074,1086,1085>>, <<1074,1086,1086,1073,1097,1077>>, <<1074,1086,1087,1088,1086,1089>>, <<1074,1086,1089,1077,1084,1085,1072,1076,1094,1072,1090,1099,1081>>,
     <<1074,1086,1089,1077,1084,1085,1072,1076,1094,1072,1090,1100>>, <<1074,1086,1089,1077,1084,1100>>, <<1074,1089,1103>>, <<1074,1089,1105>>,
     <<1074,1090,1086,1088,1086,1081>>, <<1074,1099>>, <<1074,1099,1081,1090,1080>>, <<1075>>,
     <<1075,1076,1077>>, <<1075,1083,1072,1074,1085,1099,1081>>, <<1075,1083,1072,1079>>, <<1075,1086,1074,1086,1088,1080,1083>>,
     <<1075,1086,1074,1086,1088,1080,1090>>, <<1075,1086,1074,1086,1088,1080,1090,1100>>, <<1075,1086,1076>>, <<1075,1086,1076,1072>>,
     <<1075,1086,1076,1091>>, <<1075,1086,1083,1086,1074,1072>>, <<1075,1086,1083,1086,1089>>, <<1075,1086,1088,1086,1076>>,
     <<1076,1072>>, <<1076,1072,1074,1072,1090,1100>>, <<1076,1072,1074,1085,1086>>, <<1076,1072,1078,1077>>,
     <<1076,1072,1083,1077,1082,1080,1081>>, <<1076,1072,1083,1077,1082,1086>>, <<1090,1088,1080>>, <<1090,1088,1080,1085,1072,1076,1094,1072,1090,1099,1081>>,
     <<1090,1088,1080,1085,1072,1076,1094,1072,1090,1100>>, <<1090,1091>>, <<1090,1091,1076,1072>>, <<1090,1091,1090>>,
     <<1090,1099>>, <<1090,1099,1089,1103,1095>>, <<1091>>, <<1091,1074,1080,1076,1077,1090,1100>>,
     <<1091,1078>>, <<1091,1078,1077>>, <<1091,1083,1080,1094,1072>>, <<1091,1084,1077,1090,1100>>,
     <<1091,1090,1088,1086>>, <<1093,1086,1088,1086,1096,1080,1081>>, <<1093,1086,1088,1086,1096,1086>>, <<1093,1086,1090,1077,1083,32,1073,1099>>,
     <<1093,1086,1090,1077,1090,1100>>, <<1093,1086,1090,1100>>, <<1093,1086,1090,1103>>, <<1093,1086,1095,1077,1096,1100>>,
     <<1095,1072,1089>>, <<1095,1072,1089,1090,1086>>, <<1095,1072,1089,1090,1100>>, <<1095,1072,1097,1077>>,
     <<1095,1077,1075,1086>>, <<1095,1077,1083,1086,1074,1077,1082>>, <<1095,1077,1084>>, <<1095,1077,1084,1091>>,
     <<1095,1077,1088,1077,1079>>, <<1095,1077,1090,1074,1077,1088,1090,1099,1081>>, <<1095,1077,1090,1099,1088,1077>>, <<1095,1077,1090,1099,1088,1085,1072,1076,1094,1072,1090,1099,1081>>,
     <<1095,1077,1090,1099,1088,1085,1072,1076,1094,1072,1090,1100>>, <<1095,1090,1086>>, <<1095,1090,1086,1073>>, <<1095,1090,1086,1073,1099>>,
     <<1095,1091,1090,1100>>, <<1096,1077,1089,1090,1085,1072,1076,1094,1072,1090,1099,1081>>, <<1096,1077,1089,1090,1085,1072,1076,1094,1072,1090,1100>>, <<1096,1077,1089,1090,1086,1081>>,
     <<1096,1077,1089,1090,1100>>, <<1101,1090,1072>>, <<1101,1090,1080>>, <<1101,1090,1080,1084>>,
     <<1101,1090,1080,1084,1080>>, <<1101,1090,1080,1093>>, <<1101,1090,1086>>, <<1101,1090,1086,1075,1086>>,
     <<1101,1090,1086,1081>>, <<1101,1090,1086,1084>>, <<1101,1090,1086,1084,1091>>, <<1101,1090,1086,1090>>,
     <<1101,1090,1091>>, <<1103>>, <<1103,1074,1083,1103,1102,1089,1100>>, <<1076,1072,1083,1100,1096,1077>>,
     <<1076,1072,1088,1086,1084>>, <<1076,1072,1090,1100>>, <<1076,1074,1072>>, <<1076,1074,1072,1076,1094,1072,1090,1099,1081>>,
     <<1076,1074,1072,1076,1094,1072,1090,1100>>, <<1076,1074,1077>>, <<1076,1074,1077,1085,1072,1076,1094,1072,1090,1099,1081>>, <<1076,1074,1077,1085,1072,1076,1094,1072,1090,1100>>,
     <<1076,1074,1077,1088,1100>>, <<1076,1074,1091,1093>>, <<1076,1077,1074,1103,1090,1085,1072,1076,1094,1072,1090,1099,1081>>, <<1076,1077,1074,1103,1090,1085,1072,1076,1094,1072,1090,1100>>,
     <<1076,1077,1074,1103,1090,1099,1081>>, <<1076,1077,1074,1103,1090,1100>>, <<1076,1077,1081,1089,1090,1074,1080,1090,1077,1083,1100,1085,1086>>, <<1076,1077,1083>>,
     <<1076,1077,1083,1072,1083>>, <<1076,1077,1083,1072,1090,1100>>, <<1076,1077,1083,1072,1102>>, <<1076,1077,1083,1086>>,
     <<1076,1077,1085,1100>>, <<1076,1077,1085,1100,1075,1080>>, <<1076,1077,1089,1103,1090,1099,1081>>, <<1076,1077,1089,1103,1090,1100>>,
     <<1076,1083,1103>>, <<1076,1086>>, <<1076,1086,1074,1086,1083,1100,1085,1086>>, <<1076,1086,1083,1075,1086>>,
     <<1076,1086,1083,1078,1077,1085>>, <<1076,1086,1083,1078,1085,1086>>, <<1076,1086,1083,1078,1085,1099,1081>>, <<1076,1086,1084>>,
     <<1076,1086,1088,1086,1075,1072>>, <<1076,1088,1091,1075>>, <<1076,1088,1091,1075,1072,1103>>, <<1076,1088,1091,1075,1080,1077>>,
     <<1076,1088,1091,1075,1080,1093>>, <<1076,1088,1091,1075,1086>>, <<1076,1088,1091,1075,1086,1077>>, <<1076,1088,1091,1075,1086,1081>>,
     <<1076,1091,1084,1072,1090,1100>>, <<1076,1091,1096,1072>>, <<1077>>, <<1077,1075,1086>>,
     <<1077,1077>>, <<1077,1081>>, <<1077,1084,1091>>, <<1077,1089,1083,1080>>,
     <<1077,1089,1090,1100>>, <<1077,1097,1077>>, <<1077,1097,1105>>, <<1077,1102>>,
     <<1077,1105>>, <<1078>>, <<1078,1076,1072,1090,1100>>, <<1078,1077>>,
     <<1078,1077,1085,1072>>, <<1078,1077,1085,1097,1080,1085,1072>>, <<1078,1080,1079,1085,1100>>, <<1078,1080,1090,1100>>,
     <<1079,1072>>, <<1079,1072,1085,1103,1090>>, <<1079,1072,1085,1103,1090,1072>>, <<1079,1072,1085,1103,1090,1086>>,
     <<1079,1072,1085,1103,1090,1099>>, <<1079,1072,1090,1077,1084>>, <<1079,1072,1090,1086>>, <<1079,1072,1095,1077,1084>>,
     <<1079,1076,1077,1089,1100>>, <<1079,1077,1084,1083,1103>>, <<1079,1085,1072,1090,1100>>, <<1079,1085,1072,1095,1080,1090>>,
     <<1079,1085,1072,1095,1080,1090,1100>>, <<1080>>, <<1080,1076,1080>>, <<1080,1076,1090,1080>>,
     <<1080,1079>>, <<1080,1083,1080>>, <<1080,1084>>, <<1080,1084,1077,1077,1090>>,
     <<1080,1084,1077,1083>>, <<1080,1084,1077,1085,1085,1086>>, <<1080,1084,1077,1090,1100>>, <<1080,1084,1080>>,
     <<1080,1084,1103>>, <<1080,1085,1086,1075,1076,1072>>, <<1080,1093>>, <<1082>>,
     <<1082,1072,1078,1076,1072,1103>>, <<1082,1072,1078,1076,1086,1077>>, <<1082,1072,1078,1076,1099,1077>>, <<1082,1072,1078,1076,1099,1081>>,
     <<1082,1072,1078,1077,1090,1089,1103>>, <<1082,1072,1079,1072,1090,1100,1089,1103>>, <<1082,1072,1082>>, <<1082,1072,1082,1072,1103>>,
     <<1082,1072,1082,1086,1081>>, <<1082,1077,1084>>, <<1082,1085,1080,1075,1072>>, <<1082,1086,1075,1076,1072>>,
     <<1082,1086,1075,1086>>, <<1082,1086,1084>>, <<1082,1086,1084,1085,1072,1090,1072>>, <<1082,1086,1084,1091>>,
     <<1082,1086,1085,1077,1094>>, <<1082,1086,1085,1077,1095,1085,1086>>, <<1082,1086,1090,1086,1088,1072,1103>>, <<1082,1086,1090,1086,1088,1086,1075,1086>>,
     <<1082,1086,1090,1086,1088,1086,1081>>, <<1082,1086,1090,1086,1088,1099,1077>>, <<1082,1086,1090,1086,1088,1099,1081>>, <<1082,1086,1090,1086,1088,1099,1093>>,
     <<1082,1088,1086,1084,1077>>, <<1082,1088,1091,1075,1086,1084>>, <<1082,1090,1086>>, <<1082,1091,1076,1072>>,
     <<1083,1077,1078,1072,1090,1100>>, <<1083,1077,1090>>, <<1083,1080>>, <<1083,1080,1094,1086>>,
     <<1083,1080,1096,1100>>, <<1083,1091,1095,1096,1077>>, <<1083,1102,1073,1080,1090,1100>>, <<1089,1086,1074,1077,1090,1089,1082,1080,1081>>,
     <<1089,1086,1074,1089,1077,1084>>, <<1089,1087,1072,1089,1080,1073,1086>>, <<1089,1087,1088,1086,1089,1080,1090,1100>>, <<1089,1088,1072,1079,1091>>,
     <<1089,1090,1072,1083>>, <<1089,1090,1072,1088,1099,1081>>, <<1089,1090,1072,1090,1100>>, <<1089,1090,1086,1083>>,
     <<1089,1090,1086,1088,1086,1085,1072>>, <<1089,1090,1086,1103,1090,1100>>, <<1089,1090,1088,1072,1085,1072>>, <<1089,1091,1090,1100>>,
     <<1089,1095,1080,1090,1072,1090,1100>>, <<1090>>, <<1090,1072>>, <<1090,1072,1082>>,
     <<1090,1072,1082,1072,1103>>, <<1090,1072,1082,1078,1077>>, <<1090,1072,1082,1080>>, <<1090,1072,1082,1080,1077>>,
     <<1090,1072,1082,1086,1077>>, <<1090,1072,1082,1086,1081>>, <<1090,1072,1084>>, <<1090,1074,1086,1080>>,
     <<1090,1074,1086,1081>>, <<1090,1074,1086,1103>>, <<1090,1074,1086,1105>>, <<1090,1077>>,
     <<1090,1077,1073,1077>>, <<1090,1077,1073,1103>>, <<1090,1077,1084>>, <<1090,1077,1084,1080>>,
     <<1090,1077,1087,1077,1088,1100>>, <<1090,1077,1093>>, <<1083,1102,1076,1080>>, <<1084>>,
     <<1084,1072,1083,1077,1085,1100,1082,1080,1081>>, <<1084,1072,1083,1086>>, <<1084,1072,1090,1100>>, <<1084,1072,1096,1080,1085,1072>>,
     <<1084,1077,1078,1076,1091>>, <<1084,1077,1083,1103>>, <<1084,1077,1085,1077,1077>>, <<1084,1077,1085,1100,1096,1077>>,
     <<1084,1077,1085,1103>>, <<1084,1077,1089,1090,1086>>, <<1084,1080,1083,1083,1080,1086,1085,1086,1074>>, <<1084,1080,1084,1086>>,
     <<1084,1080,1085,1091,1090,1072>>, <<1084,1080,1088>>, <<1084,1080,1088,1072>>, <<1084,1085,1077>>,
     <<1084,1085,1086,1075,1086>>, <<1084,1085,1086,1075,1086,1095,1080,1089,1083,1077,1085,1085,1072,1103>>, <<1084,1085,1086,1075,1086,1095,1080,1089,1083,1077,1085,1085,1086,1077>>, <<1084,1085,1086,1075,1086,1095,1080,1089,1083,1077,1085,1085,1099,1077>>,
     <<1084,1085,1086,1075,1086,1095,1080,1089,1083,1077,1085,1085,1099,1081>>, <<1084,1085,1086,1081>>, <<1084,1085,1086,1102>>, <<1084,1086,1075>>,
     <<1084,1086,1075,1091>>, <<1084,1086,1075,1091,1090>>, <<1084,1086,1078>>, <<1084,1086,1078,1077,1090>>,
     <<1084,1086,1078,1077,1090,32,1073,1099,1090,1100>>, <<1084,1086,1078,1085,1086>>, <<1084,1086,1078,1093,1086>>, <<1084,1086,1080>>,
     <<1084,1086,1081>>, <<1084,1086,1088>>, <<1084,1086,1089,1082,1074,1072>>, <<1084,1086,1095,1100>>,
     <<1084,1086,1103>>, <<1084,1086,1105>>, <<1084,1099>>, <<1085,1072>>,
     <<1085,1072,1074,1077,1088,1093,1091>>, <<1085,1072,1076>>, <<1085,1072,1076,1086>>, <<1085,1072,1079,1072,1076>>,
     <<1085,1072,1080,1073,1086,1083,1077,1077>>, <<1085,1072,1081,1090,1080>>, <<1085,1072,1082,1086,1085,1077,1094>>, <<1085,1072,1084>>,
     <<1085,1072,1084,1080>>, <<1085,1072,1088,1086,1076>>, <<1085,1072,1089>>, <<1085,1072,1095,1072,1083,1072>>,
     <<1085,1072,1095,1072,1090,1100>>, <<1085,1072,1096>>, <<1085,1072,1096,1072>>, <<1085,1072,1096,1077>>,
     <<1085,1072,1096,1080>>, <<1085,1077>>, <<1085,1077,1075,1086>>, <<1085,1077,1076,1072,1074,1085,1086>>,
     <<1085,1077,1076,1072,1083,1077,1082,1086>>, <<1085,1077,1077>>, <<1085,1077,1081>>, <<1085,1077,1082,1086,1090,1086,1088,1099,1081>>,
     <<1085,1077,1083,1100,1079,1103>>, <<1085,1077,1084>>, <<1085,1077,1084,1085,1086,1075,1086>>, <<1085,1077,1084,1091>>,
     <<1085,1077,1087,1088,1077,1088,1099,1074,1085,1086>>, <<1085,1077,1088,1077,1076,1082,1086>>, <<1085,1077,1089,1082,1086,1083,1100,1082,1086>>, <<1085,1077,1090>>,
     <<1085,1077,1102>>, <<1085,1077,1105>>, <<1085,1080>>, <<1085,1080,1073,1091,1076,1100>>,
     <<1085,1080,1078,1077>>, <<1085,1080,1079,1082,1086>>, <<1085,1080,1082,1072,1082,1086,1081>>, <<1085,1080,1082,1086,1075,1076,1072>>,
     <<1085,1080,1082,1090,1086>>, <<1085,1080,1082,1091,1076,1072>>, <<1085,1080,1084>>, <<1085,1080,1084,1080>>,
     <<1085,1080,1093>>, <<1085,1080,1095,1077,1075,1086>>, <<1085,1080,1095,1090,1086>>, <<1085,1086>>,
     <<1085,1086,1074,1099,1081>>, <<1085,1086,1075,1072>>, <<1085,1086,1095,1100>>, <<1085,1091>>,
     <<1085,1091,1078,1085,1086>>, <<1085,1091,1078,1085,1099,1081>>, <<1085,1093>>, <<1086>>,
     <<1086,1073>>, <<1086,1073,1072>>, <<1086,1073,1099,1095,1085,1086>>, <<1086,1076,1080,1085>>,
     <<1086,1076,1080,1085,1085,1072,1076,1094,1072,1090,1099,1081>>, <<1086,1076,1080,1085,1085,1072,1076,1094,1072,1090,1100>>, <<1086,1076,1085,1072,1078,1076,1099>>, <<1086,1076,1085,1072,1082,1086>>,
     <<1086,1076,1085,1086,1075,1086>>, <<1086,1076,1085,1086,1081>>, <<1086,1082,1072,1079,1072,1090,1100,1089,1103>>, <<1086,1082,1085,1086>>,
     <<1086,1082,1086,1083,1086>>, <<1086,1085>>, <<1086,1085,1072>>, <<1086,1085,1080>>,
     <<1086,1085,1086>>, <<1086,1087,1103,1090,1100>>, <<1086,1089,1086,1073,1077,1085,1085,1086>>, <<1086,1089,1090,1072,1090,1100,1089,1103>>,
     <<1086,1090>>, <<1086,1090,1074,1077,1090,1080,1090,1100>>, <<1086,1090,1077,1094>>, <<1086,1090,1082,1091,1076,1072>>,
     <<1086,1090,1086,1074,1089,1102,1076,1091>>, <<1086,1090,1089,1102,1076,1072>>, <<1086,1095,1077,1085,1100>>, <<1087,1077,1088,1074,1099,1081>>,
     <<1087,1077,1088,1077,1076>>, <<1087,1080,1089,1072,1090,1100>>, <<1087,1083,1077,1095,1086>>, <<1087,1086>>,
     <<1087,1086,1076>>, <<1087,1086,1076,1086,1081,1076,1080>>, <<1087,1086,1076,1091,1084,1072,1090,1100>>, <<1087,1086,1078,1072,1083,1091,1081,1089,1090,1072>>,
     <<1087,1086,1079,1078,1077>>, <<1087,1086,1081,1090,1080>>, <<1087,1086,1082,1072>>, <<1087,1086,1083>>,
     <<1090,1086>>, <<1090,1086,1073,1086,1081>>, <<1090,1086,1073,1086,1102>>, <<1090,1086,1074,1072,1088,1080,1097>>,
     <<1090,1086,1075,1076,1072>>, <<1090,1086,1075,1086>>, <<1090,1086,1078,1077>>, <<1090,1086,1083,1100,1082,1086>>,
     <<1090,1086,1084>>, <<1090,1086,1084,1091>>, <<1090,1086,1090>>, <<1090,1086,1102>>,
     <<1090,1088,1077,1090,1080,1081>>, <<1089,1083,1080,1096,1082,1086,1084>>, <<1089,1083,1086,1074,1086>>, <<1089,1083,1091,1095,1072,1081>>,
     <<1089,1084,1086,1090,1088,1077,1090,1100>>, <<1089,1085,1072,1095,1072,1083,1072>>, <<1089,1085,1086,1074,1072>>, <<1089,1086>>,
     <<1089,1086,1073,1086,1081>>, <<1089,1086,1073,1086,1102>>, <<1087,1086,1083,1091,1095,1080,1090,1100>>, <<1087,1086,1084,1085,1080,1090,1100>>,
     <<1087,1086,1085,1080,1084,1072,1090,1100>>, <<1087,1086,1085,1103,1090,1100>>, <<1087,1086,1088>>, <<1087,1086,1088,1072>>,
     <<1087,1086,1089,1083,1077>>, <<1087,1086,1089,1083,1077,1076,1085,1080,1081>>, <<1087,1086,1089,1084,1086,1090,1088,1077,1090,1100>>, <<1087,1086,1089,1088,1077,1076,1080>>,
     <<1087,1086,1090,1086,1084>>, <<1087,1086,1090,1086,1084,1091>>, <<1087,1086,1095,1077,1084,1091>>, <<1087,1086,1095,1090,1080>>,
     <<1087,1088,1072,1074,1076,1072>>, <<1087,1088,1077,1082,1088,1072,1089,1085,1086>>, <<1087,1088,1080>>, <<1087,1088,1086>>,
     <<1087,1088,1086,1089,1090,1086>>, <<1087,1088,1086,1090,1080,1074>>, <<1087,1088,1086,1094,1077,1085,1090,1086,1074>>, <<1087,1091,1090,1100>>,
     <<1087,1103,1090,1085,1072,1076,1094,1072,1090,1099,1081>>, <<1087,1103,1090,1085,1072,1076,1094,1072,1090,1100>>, <<1087,1103,1090,1099,1081>>, <<1087,1103,1090,1100>>,
     <<1088,1072,1073,1086,1090,1072>>, <<1088,1072,1073,1086,1090,1072,1090,1100>>, <<1088,1072,1079>>, <<1088,1072,1079,1074,1077>>,
     <<1088,1072,1085,1086>>, <<1088,1072,1085,1100,1096,1077>>, <<1088,1077,1073,1077,1085,1086,1082>>, <<1088,1077,1096,1080,1090,1100>>,
     <<1088,1086,1089,1089,1080,1103>>, <<1088,1091,1082,1072>>, <<1088,1091,1089,1089,1082,1080,1081>>, <<1088,1103,1076>>,
     <<1088,1103,1076,1086,1084>>, <<1089>>, <<1089,32,1082,1077,1084>>, <<1089,1072,1084>>,
     <<1089,1072,1084,1072>>, <<1089,1072,1084,1080>>, <<1089,1072,1084,1080,1084>>, <<1089,1072,1084,1080,1084,1080>>,
     <<1089,1072,1084,1080,1093>>, <<1089,1072,1084,1086>>, <<1089,1072,1084,1086,1075,1086>>, <<1089,1072,1084,1086,1081>>,
     <<1089,1072,1084,1086,1084>>, <<1089,1072,1084,1086,1084,1091>>, <<1089,1072,1084,1091>>, <<1089,1072,1084,1099,1081>>,
     <<1089,1074,1077,1090>>, <<1089,1074,1086,1077>>, <<1089,1074,1086,1077,1075,1086>>, <<1089,1074,1086,1077,1081>>,
     <<1089,1074,1086,1080>>, <<1089,1074,1086,1080,1093>>, <<1089,1074,1086,1081>>, <<1089,1074,1086,1102>>,
     <<1089,1076,1077,1083,1072,1090,1100>>, <<1089,1077,1072,1086,1081>>, <<1089,1077,1073,1077>>, <<1089,1077,1073,1103>>,
     <<1089,1077,1075,1086,1076,1085,1103>>, <<1089,1077,1076,1100,1084,1086,1081>>, <<1089,1077,1081,1095,1072,1089>>, <<1089,1077,1084,1085,1072,1076,1094,1072,1090,1099,1081>>,
     <<1089,1077,1084,1085,1072,1076,1094,1072,1090,1100>>, <<1089,1077,1084,1100>>, <<1089,1080,1076,1077,1090,1100>>, <<1089,1080,1083,1072>>,
     <<1089,1080,1093>>, <<1089,1082,1072,1079,1072,1083>>, <<1089,1082,1072,1079,1072,1083,1072>>, <<1089,1082,1072,1079,1072,1090,1100>>,
     <<1089,1082,1086,1083,1100,1082,1086>>
  >>
numStopwords == Len(stopwords)

\* sort.Search(n, f): the binary search of the standard library; i and j
\* are 0-based, a is 1-based.
\* The operands are bound as values (b) before use.
RECURSIVE Search(_, _, _, _)
Search(a, x, i, j) ==
  CHOOSE r \in {IF b[1] < b[2]
                THEN LET h == (b[1] + b[2]) \div 2
                     IN  IF StrLess(a[h + 1], b[3]) THEN Search(a, b[3], h + 1, b[2])
                                                   ELSE Search(a, b[3], b[1], h)
                ELSE b[1] : b \in {<<i, j, x>>}} : TRUE

SearchStrings(a, x) == Search(a, x, 0, Len(a))

IsStopWordIndex(v) == SearchStrings(stopwords, ToLower(v))

\* v = strings.ToLower(v), index := sort.SearchStrings(stopwords, v), and
\* the test of the index; v and index are bound as values before use.
IsStopWord(v) ==
  CHOOSE r \in
    {CHOOSE q \in {index >= numStopwords \/ stopwords[index + 1] = x :
                     index \in {SearchStrings(stopwords, x)}} : TRUE :
     x \in {ToLower(v)}} : TRUE

IsNotStopWord(v) == ~IsStopWord(v)

(***************************************************************************)
(* Tokenizer: the scanner, predicates and mappers                          *)
(***************************************************************************)
\* A Predicate or a Mapper is named; the named ones are those of the
\* package and of package strings.
applyPredicate(f, text) ==
  CASE f = "IsNotStopWord" -> IsNotStopWord(text)
    [] f = "IsStopWord"    -> IsStopWord(text)

applyMapper(fn, v) ==
  CASE fn = "ToLower" -> ToLower(v)
    [] fn = "ToUpper" -> ToUpper(v)

\* apply of Filter: every filter accepts text.
apply(filters, text) ==
  \A k \in 1..Len(filters) : applyPredicate(filters[k], text)

\* The inner loop of Map: v = fn(v) for each fn, in order.
RECURSIVE applyTransforms(_, _)
applyTransforms(f, v) ==
  CHOOSE r \in {IF f = <<>> THEN x ELSE applyTransforms(Tail(f), applyMapper(Head(f), x)) :
                  x \in {v}} : TRUE

\* bufio.Scanner with bufio.ScanWords over a text; pos is the number of
\* runes consumed so far.
RECURSIVE SkipSpaces(_, _)
SkipSpaces(text, i) ==
  IF i <= Len(text) /\ isSpace(text[i]) THEN SkipSpaces(text, i + 1) ELSE i

\* The index after the word that begins at i: the first space from i on, or
\* the end of the text.
WordEnd(text, i) ==
  IF i > Len(text) THEN i
  ELSE CHOOSE j \in i..(Len(text) + 1) :
         /\ j > Len(text) \/ isSpace(text[j])
         /\ \A k \in i..(j - 1) : ~isSpace(text[k])

\* bufio.MaxScanTokenSize: the scanner's buffer does not grow beyond it.
MaxScanTokenSize == 65536

\* utf8.RuneLen: the bytes of a rune in the text.
RuneLen(r) == IF r < 128 THEN 1 ELSE IF r < 2048 THEN 2 ELSE IF r < 65536 THEN 3 ELSE 4

\* len(text[s..e]) in bytes.
ByteLen(text, s, e) ==
  LET N(n) == Cardinality({i \in s..e : RuneLen(text[i]) = n})
  IN  N(1) + 2 * N(2) + 3 * N(3) + 4 * N(4)

\* tokenizer.Scan(): is there another word after pos.  Scan returns false
\* (ErrTooLong, which Tokenize does not read) when the buffer, grown to
\* MaxScanTokenSize bytes, is full and holds no word yet: the word and the
\* whole space rune after it do not fit, or, at the end of the text, the
\* word leaves no byte free (the end is seen by a read into free room).
\* A word of n runes has at most 4n bytes.
ScanHas(text, pos) ==
  LET s == SkipSpaces(text, pos + 1)
      e == WordEnd(text, s)
      d == IF e <= Len(text) THEN RuneLen(text[e]) ELSE 1
  IN  /\ s <= Len(text)
      /\ \/ 4 * (e - s) + d <= MaxScanTokenSize
         \/ ByteLen(text, s, e - 1) + d <= MaxScanTokenSize

\* tokenizer.Text() after a successful Scan().
ScanText(text, pos) ==
  LET s == SkipSpaces(text, pos + 1)
  IN  SubSeq(text, s, WordEnd(text, s) - 1)

\* The scanner's position after that Scan().
ScanNext(text, pos) == WordEnd(text, SkipSpaces(text, pos + 1)) - 1

\* All the words the scanner yields from pos on.
RECURSIVE ScanWords(_, _)
ScanWords(text, pos) ==
  IF ScanHas(text, pos)
  THEN <<ScanText(text, pos)>> \o ScanWords(text, ScanNext(text, pos))
  ELSE <<>>

FilterSeq(vs, filters) ==
  LET Keep(text) == apply(filters, text) IN SelectSeq(vs, Keep)

MapSeq(vs, f) == [i \in 1..Len(vs) |-> applyTransforms(f, vs[i])]

\* NewTokenizer(): the standard tokenizer.
NewTokenizer ==
  [bufferSize |-> 100, transforms |-> <<"ToLower">>, filters |-> <<"IsNotStopWord">>]

\* The sequence a consumer ranges over on the channel Tokenize returns:
\* the scanned words through Filter, then through Map.
TokenizeSeq(t, data) ==
  MapSeq(FilterSeq(ScanWords(data, 0), t.filters), t.transforms)

(***************************************************************************)
(* float64 as exact rationals                                              *)
(***************************************************************************)
\* The operands are bound as values (x) before use, so each is computed once.
RECURSIVE GCD(_, _)
GCD(a, b) ==
  CHOOSE g \in {IF x[2] = 0 THEN x[1] ELSE GCD(x[2], x[1] % x[2]) : x \in {<<a, b>>}} : TRUE

Abs(n) == IF n < 0 THEN -n ELSE n

Rat(n, d) ==
  CHOOSE q \in {LET g == GCD(Abs(x[1]), Abs(x[2]))
                    s == IF x[2] < 0 THEN -1 ELSE 1
                IN  <<(s * x[1]) \div g, (s * x[2]) \div g>> : x \in {<<n, d>>}} : TRUE

Zero == <<0, 1>>
One == <<1, 1>>
FromInt(n) == <<n, 1>>
\* The operands are bound as values (x, y) before use.
RAdd(a, b) ==
  CHOOSE r \in {Rat(x[1] * y[2] + y[1] * x[2], x[2] * y[2]) : x \in {a}, y \in {b}} : TRUE
RMul(a, b) ==
  CHOOSE r \in {Rat(x[1] * y[1], x[2] * y[2]) : x \in {a}, y \in {b}} : TRUE
RDiv(a, b) ==
  CHOOSE r \in {Rat(x[1] * y[2], x[2] * y[1]) : x \in {a}, y \in {b}} : TRUE
RLess(a, b) == a[1] * b[2] < b[1] * a[2]
RPos(a) == a[1] > 0

(***************************************************************************)
(* Inputs                                                                  *)
(***************************************************************************)
\* Documents: "", "кот", "Акция кот", "на".
DocEmpty == <<>>
DocKot == <<1082,1086,1090>>
DocAkciyaKot == <<1040,1082,1094,1080,1103,32,1082,1086,1090>>
DocNa == <<1085,1072>>
Docs == {DocEmpty, DocKot, DocAkciyaKot, DocNa}

\* What a range over c.tokenizer.Tokenize(data) yields, for each document.
Tokenize == [d \in Docs |-> TokenizeSeq(NewTokenizer, d)]

\* Category labels: any string, the empty one included.
Categories == {"", "animals", "finance"}

\* The goroutines that call the classifier, and the lock's "no writer".
Procs == {1, 2}

NoProc == 0

\* The number of calls made on the classifier in one run.
MaxCalls == 3

ErrNotClassified == "ErrNotClassified"
ErrEmptyText == "ErrEmptyText"
NoErr == "nil"

(***************************************************************************)
(* State                                                                   *)
(***************************************************************************)
VARIABLES
  MapTokenToCategory,  \* Classifier.MapTokenToCategory: token -> category -> int
  CategoriesCount,     \* Classifier.CategoriesCount: category -> int
  mu,                  \* Classifier.mu: [w: writer or NoProc, readers: set]
  pc,                  \* where each calling goroutine is
  call,                \* its call: [op, data, category]
  toks,                \* Train: what is left of the token stream
  cats,                \* Classify/GetProb: categories still to visit
  bestProb,            \* maxCoincidenceIndex / bestProb
  respCat,             \* guessedClass / respCat
  probs,               \* GetProb: probs
  result,              \* what its last call returned
  snap,                \* the maps as they were when it took the lock
  trained,             \* per category, the Train calls that have returned
  ncalls,              \* calls made so far
  pipe,                \* the Tokenize pipeline its call is ranging over
  textProb,            \* getTextProb: prob
  cur,                 \* Classify/GetProb: the category of the iteration
  started,             \* Tokenize calls its call has made
  catProb              \* getProb: categoryProb

\* Where a call is inside getProb, and the pipeline it ranges over.
gvars == <<pipe, textProb, cur, started, catProb>>

cvars == <<MapTokenToCategory, CategoriesCount, mu, pc, call, toks, cats,
           bestProb, respCat, probs, result, snap, trained, ncalls, gvars>>

EmptyMap == [x \in {} |-> 0]
NoCall == [op |-> "none", data |-> <<>>, category |-> ""]
\* A returned value; writer is the goroutine that held or awaited the write
\* lock when Classify returned on its empty-text check.
NoResult == [op |-> "none", label |-> "", conf |-> Zero,
             probs |-> EmptyMap, err |-> NoErr, writer |-> NoProc]
NoSnap == [tokens |-> EmptyMap, categories |-> EmptyMap]

(***************************************************************************)
(* Frequency model and estimator: the methods of Classifier                *)
(***************************************************************************)
\* A Go map read: the zero value for an absent key.
MapGet(m, k) == IF k \in DOMAIN m THEN m[k] ELSE 0

\* c.MapTokenToCategory[t][cat] as Go reads it.
TokenCount(t, cat) ==
  IF t \in DOMAIN MapTokenToCategory THEN MapGet(MapTokenToCategory[t], cat) ELSE 0

\* Faulty variant of addToken: the inner map is made anew on every call.
addTokenFreshMap(t, cat) ==
  [k \in DOMAIN MapTokenToCategory \cup {t} |->
     IF k = t THEN [c \in {cat} |-> 1] ELSE MapTokenToCategory[k]]

\* The maps after addToken(t, cat).
addToken(t, cat) ==
  LET inner == IF t \in DOMAIN MapTokenToCategory
               THEN MapTokenToCategory[t] ELSE EmptyMap
      bumped == [k \in DOMAIN inner \cup {cat} |-> IF k = cat THEN MapGet(inner, cat) + 1 ELSE inner[k]]
  IN  [k \in DOMAIN MapTokenToCategory \cup {t} |->
         IF k = t THEN bumped ELSE MapTokenToCategory[k]]

countTokenInCategory(token, category) == FromInt(TokenCount(token, category))

getModelCategories == DOMAIN CategoriesCount

RECURSIVE SumCounts(_, _)
SumCounts(token, S) ==
  IF S = {} THEN 0
  ELSE LET k == CHOOSE k \in S : TRUE
       IN  TokenCount(token, k) + SumCounts(token, S \ {k})

\* Faulty variant of calcTokenWeight: no minimal weight for an unseen token.
calcTokenWeightNoFloor(token) ==
  FromInt(SumCounts(token, getModelCategories))

calcTokenWeight(token) ==
  LET weight == FromInt(SumCounts(token, getModelCategories))
  IN  IF RPos(weight) THEN weight ELSE Rat(1, 1000)

\* The map after addCategory(cat).
addCategory(cat) ==
  [k \in DOMAIN CategoriesCount \cup {cat} |->
     IF k = cat THEN MapGet(CategoriesCount, cat) + 1 ELSE CategoriesCount[k]]

categoryTokensCount(cat) == FromInt(MapGet(CategoriesCount, cat))

getTokenProb(token, category) ==
  IF categoryTokensCount(category) = Zero THEN Zero
  ELSE RDiv(countTokenInCategory(token, category), categoryTokensCount(category))

\* Faulty variant of getWeightedProb: the bare token probability.
getWeightedProbUnweighted(token, cat) == getTokenProb(token, cat)

getWeightedProb(token, cat) ==
  LET prob == getTokenProb(token, cat)
      sum  == FromInt(SumCounts(token, getModelCategories))
      n    == FromInt(Cardinality(DOMAIN CategoriesCount))
  IN  RDiv(RAdd(RDiv(RMul(calcTokenWeight(token), One), n), RMul(sum, prob)),
           RAdd(One, sum))

\* The loop of getTextProb: prob *= getWeightedProb(t, cat) for each token.
RECURSIVE ProdWeighted(_, _, _)
ProdWeighted(prob, ts, cat) ==
  IF ts = <<>> THEN prob
  ELSE ProdWeighted(RMul(prob, getWeightedProb(Head(ts), cat)), Tail(ts), cat)

getTextProb(data, cat) == ProdWeighted(One, Tokenize[data], cat)

\* Variant of categoryProb with the quotient taken in float64.
categoryProbReal == Rat(1, Cardinality(DOMAIN CategoriesCount))

\* categoryProb := float64(1 / len(c.CategoriesCount)): the quotient of two
\* ints, converted afterwards.
categoryProb == FromInt(1 \div Cardinality(DOMAIN CategoriesCount))

getProb(data, category) ==
  LET docProb == getTextProb(data, category)
  IN  RMul(docProb, categoryProb)

(***************************************************************************)
(* Tokenizer pipeline: Tokenize starts three goroutines (scan, Filter,     *)
(* Map) joined by buffered channels; a consumer ranges over the last one.  *)
(***************************************************************************)
defaultBufferSize == 50

\* Texts: "", "A b A", "кот сидит на окне", " И  собака".
TextEmpty == <<>>
TextABA == <<65,32,98,32,65>>
TextKot == <<1082,1086,1090,32,1089,1080,1076,1080,1090,32,1085,1072,32,1086,1082,1085,1077>>
TextSobaka == <<32,1048,32,32,1089,1086,1073,1072,1082,1072>>
Texts == {TextEmpty, TextABA, TextKot, TextSobaka}

\* "a", a word of MaxScanTokenSize bytes (runes of 4 bytes each), "b".
TextTooLong ==
  <<97, 32>> \o [i \in 1..(MaxScanTokenSize \div 4) |-> 128512] \o <<32, 98>>

\* Filters(...) and Transforms(...) settings; the first of each is the default.
FilterLists == {<<"IsNotStopWord">>, <<>>, <<"IsNotStopWord", "IsStopWord">>}
TransformLists == {<<"ToLower">>, <<>>, <<"ToLower", "ToUpper">>, <<"ToUpper", "ToLower">>}
\* BufferSize(...) settings; 100 is the default, 0 makes the source channel
\* unbuffered.
BufferSizes == {0, 1, 2, 100}

VARIABLES
  input,          \* the text given to Tokenize (its data)
  tokenizer,             \* the StdTokenizer t: [bufferSize, transforms, filters]
  scanPos,       \* the scanner: runes consumed so far
  tokens,        \* chan of Tokenize
  filterStream,  \* stream of Filter
  mapStream,     \* stream of Map
  gpc,           \* where each goroutine is: scan, filter, map, consumer
  held,          \* the value each goroutine is about to send
  out,           \* what the consumer has received, in order
  panic          \* a send on, or a close of, a closed channel happened

pvars == <<input, tokenizer, scanPos, tokens, filterStream, mapStream, gpc, held, out, panic>>

\* make(chan string, n); closes and sent count the close and send operations.
MakeChan(n) == [buf |-> <<>>, cap |-> n, closes |-> 0, sent |-> 0]

\* Faulty variant of CanSend: a send never waits for room.
CanSendAlways(ch, receiving) == TRUE

\* ch <- v can proceed: the buffer is not full, or the channel is unbuffered
\* and its receiver is waiting at the receive (receiving), or the channel is
\* closed (and the send panics).
CanSend(ch, receiving) ==
  \/ Len(ch.buf) < ch.cap
  \/ ch.cap = 0 /\ receiving
  \/ ch.closes > 0

\* ch <- v on an open unbuffered channel: the value goes to the waiting
\* receiver and never into the buffer.
HandOff(ch) == ch.cap = 0 /\ ch.closes = 0

\* The channel after ch <- v.
Send(ch, v) ==
  IF ch.closes > 0 THEN ch
  ELSE [ch EXCEPT !.buf = Append(@, v), !.sent = @ + 1]

\* The channel after close(ch).
Close(ch) == [ch EXCEPT !.closes = @ + 1]

\* A range over ch ends: it is closed and drained.
Drained(ch) == ch.buf = <<>> /\ ch.closes > 0

\* Tokenize(data) on a tokenizer: the channels are made, the goroutines started.
PipeStart(d, tk) ==
  /\ input = d
  /\ tokenizer = tk
  /\ scanPos = 0
  /\ tokens = MakeChan(tk.bufferSize)
  /\ filterStream = MakeChan(defaultBufferSize)
  /\ mapStream = MakeChan(defaultBufferSize)
  /\ gpc = [scan |-> "scan", filter |-> "recv", map |-> "recv", consumer |-> "recv"]
  /\ held = [scan |-> <<>>, filter |-> <<>>, map |-> <<>>]
  /\ out = <<>>
  /\ panic = FALSE

\* No Tokenize call is being followed.
PipeOff ==
  /\ input = <<>>
  /\ tokenizer = NewTokenizer
  /\ scanPos = 0
  /\ tokens = MakeChan(NewTokenizer.bufferSize)
  /\ filterStream = MakeChan(defaultBufferSize)
  /\ mapStream = MakeChan(defaultBufferSize)
  /\ gpc = [scan |-> "off", filter |-> "off", map |-> "off", consumer |-> "off"]
  /\ held = [scan |-> <<>>, filter |-> <<>>, map |-> <<>>]
  /\ out = <<>>
  /\ panic = FALSE

\* Tokenize on any of the texts under any of the settings, and on the text
\* with the long word under the default ones.
PipeInit ==
  \/ \E d \in Texts, f \in FilterLists, m \in TransformLists, b \in BufferSizes :
       PipeStart(d, [bufferSize |-> b, transforms |-> m, filters |-> f])
  \/ PipeStart(TextTooLong, NewTokenizer)

\* Scan goroutine: tokenizer.Scan() finds a word.
ScanScan ==
  /\ gpc.scan = "scan"
  /\ ScanHas(input, scanPos)
  /\ held' = [held EXCEPT !.scan = ScanText(input, scanPos)]
  /\ scanPos' = ScanNext(input, scanPos)
  /\ gpc' = [gpc EXCEPT !.scan = "send"]
  /\ UNCHANGED <<input, tokenizer, tokens, filterStream, mapStream, out, panic>>
  /\ UNCHANGED cvars

\* Scan goroutine: tokens <- tokenizer.Text().  On an unbuffered channel the
\* send is the receive of the Filter goroutine waiting in its range, which
\* goes on with apply(text) as in FilterRecv.
ScanSend ==
  /\ gpc.scan = "send"
  /\ CanSend(tokens, gpc.filter = "recv")
  /\ IF HandOff(tokens)
     THEN /\ tokens' = [tokens EXCEPT !.sent = @ + 1]
          /\ IF apply(tokenizer.filters, held.scan)
             THEN /\ held' = [held EXCEPT !.scan = <<>>, !.filter = held.scan]
                  /\ gpc' = [gpc EXCEPT !.scan = "scan", !.filter = "send"]
             ELSE /\ held' = [held EXCEPT !.scan = <<>>]
                  /\ gpc' = [gpc EXCEPT !.scan = "scan"]
     ELSE /\ tokens' = Send(tokens, held.scan)
          /\ held' = [held EXCEPT !.scan = <<>>]
          /\ gpc' = [gpc EXCEPT !.scan = "scan"]
  /\ panic' = (panic \/ tokens.closes > 0)
  /\ UNCHANGED <<input, tokenizer, scanPos, filterStream, mapStream, out>>
  /\ UNCHANGED cvars

\* Scan goroutine: tokenizer.Scan() is false; close(tokens).
ScanClose ==
  /\ gpc.scan = "scan"
  /\ ~ScanHas(input, scanPos)
  /\ tokens' = Close(tokens)
  /\ panic' = (panic \/ tokens.closes > 0)
  /\ gpc' = [gpc EXCEPT !.scan = "done"]
  /\ UNCHANGED <<input, tokenizer, scanPos, filterStream, mapStream, held, out>>
  /\ UNCHANGED cvars

\* Filter goroutine: text received from vs; apply(text) decides.
FilterRecv ==
  /\ gpc.filter = "recv"
  /\ tokens.buf # <<>>
  /\ tokens' = [tokens EXCEPT !.buf = Tail(@)]
  /\ IF apply(tokenizer.filters, Head(tokens.buf))
     THEN /\ held' = [held EXCEPT !.filter = Head(tokens.buf)]
          /\ gpc' = [gpc EXCEPT !.filter = "send"]
     ELSE UNCHANGED <<held, gpc>>
  /\ UNCHANGED <<input, tokenizer, scanPos, filterStream, mapStream, out, panic>>
  /\ UNCHANGED cvars

\* Filter goroutine: stream <- text.  stream is made with defaultBufferSize,
\* so the send goes through the buffer.
FilterSend ==
  /\ gpc.filter = "send"
  /\ CanSend(filterStream, gpc.map = "recv")
  /\ filterStream' = Send(filterStream, held.filter)
  /\ panic' = (panic \/ filterStream.closes > 0)
  /\ held' = [held EXCEPT !.filter = <<>>]
  /\ gpc' = [gpc EXCEPT !.filter = "recv"]
  /\ UNCHANGED <<input, tokenizer, scanPos, tokens, mapStream, out>>
  /\ UNCHANGED cvars

\* Filter goroutine: vs is closed and drained; close(stream).
FilterClose ==
  /\ gpc.filter = "recv"
  /\ Drained(tokens)
  /\ filterStream' = Close(filterStream)
  /\ panic' = (panic \/ filterStream.closes > 0)
  /\ gpc' = [gpc EXCEPT !.filter = "done"]
  /\ UNCHANGED <<input, tokenizer, scanPos, tokens, mapStream, held, out>>
  /\ UNCHANGED cvars

\* Map goroutine: v received from vs; v = fn(v) for each mapper.
MapRecv ==
  /\ gpc.map = "recv"
  /\ filterStream.buf # <<>>
  /\ filterStream' = [filterStream EXCEPT !.buf = Tail(@)]
  /\ held' = [held EXCEPT !.map = applyTransforms(tokenizer.transforms, Head(filterStream.buf))]
  /\ gpc' = [gpc EXCEPT !.map = "send"]
  /\ UNCHANGED <<input, tokenizer, scanPos, tokens, mapStream, out, panic>>
  /\ UNCHANGED cvars

\* Faulty variant of MapSend: a send that gives up when the channel is full
\* (a select with a default branch), so the token is lost and Map goes on.
MapSendNeverBlocks ==
  /\ gpc.map = "send"
  /\ mapStream' = IF Len(mapStream.buf) < mapStream.cap
                  THEN Send(mapStream, held.map) ELSE mapStream
  /\ panic' = (panic \/ mapStream.closes > 0)
  /\ held' = [held EXCEPT !.map = <<>>]
  /\ gpc' = [gpc EXCEPT !.map = "recv"]
  /\ UNCHANGED <<input, tokenizer, scanPos, tokens, filterStream, out>>
  /\ UNCHANGED cvars

\* Map goroutine: stream <- v.  stream is made with defaultBufferSize, so
\* the send goes through the buffer.
MapSend ==
  /\ gpc.map = "send"
  /\ CanSend(mapStream, gpc.consumer = "recv")
  /\ mapStream' = Send(mapStream, held.map)
  /\ panic' = (panic \/ mapStream.closes > 0)
  /\ held' = [held EXCEPT !.map = <<>>]
  /\ gpc' = [gpc EXCEPT !.map = "recv"]
  /\ UNCHANGED <<input, tokenizer, scanPos, tokens, filterStream, out>>
  /\ UNCHANGED cvars

\* Faulty variant of MapClose: the goroutine ends without close(stream).
MapCloseForgotten ==
  /\ gpc.map = "recv"
  /\ Drained(filterStream)
  /\ gpc' = [gpc EXCEPT !.map = "done"]
  /\ UNCHANGED <<input, tokenizer, scanPos, tokens, filterStream, mapStream, held, out, panic>>
  /\ UNCHANGED cvars

\* Map goroutine: vs is closed and drained; close(stream).
MapClose ==
  /\ gpc.map = "recv"
  /\ Drained(filterStream)
  /\ mapStream' = Close(mapStream)
  /\ panic' = (panic \/ mapStream.closes > 0)
  /\ gpc' = [gpc EXCEPT !.map = "done"]
  /\ UNCHANGED <<input, tokenizer, scanPos, tokens, filterStream, held, out>>
  /\ UNCHANGED cvars

\* The consumer's range over the channel Tokenize returned: one token.
ConsumerRecv ==
  /\ gpc.consumer = "recv"
  /\ mapStream.buf # <<>>
  /\ mapStream' = [mapStream EXCEPT !.buf = Tail(@)]
  /\ out' = Append(out, Head(mapStream.buf))
  /\ UNCHANGED <<input, tokenizer, scanPos, tokens, filterStream, gpc, held, panic>>
  /\ UNCHANGED cvars

\* The consumer's range ends: the channel is closed and drained.
ConsumerEnd ==
  /\ gpc.consumer = "recv"
  /\ Drained(mapStream)
  /\ gpc' = [gpc EXCEPT !.consumer = "done"]
  /\ UNCHANGED <<input, tokenizer, scanPos, tokens, filterStream, mapStream, held, out, panic>>
  /\ UNCHANGED cvars

ScanStep == ScanScan \/ ScanSend \/ ScanClose
FilterStep == FilterRecv \/ FilterSend \/ FilterClose
MapStep == MapRecv \/ MapSend \/ MapClose
ConsumerStep == ConsumerRecv \/ ConsumerEnd

\* A caller that does not range to the end: it takes at most MaxRecv tokens
\* from the channel Tokenize returned and may stop at any point before the
\* channel is closed and drained.  Nothing in Tokenize, Filter or Map is told.
LongWords == 108
MaxRecv == 3

\* "a a a ... a": LongWords words, none of them a stop word.
TextLong == [i \in 1..(2 * LongWords - 1) |-> IF i % 2 = 1 THEN 97 ELSE 32]

ConsumerRecvSome ==
  /\ Len(out) < MaxRecv
  /\ ConsumerRecv

ConsumerAbandon ==
  /\ gpc.consumer = "recv"
  /\ ~Drained(mapStream)
  /\ gpc' = [gpc EXCEPT !.consumer = "stopped"]
  /\ UNCHANGED <<input, tokenizer, scanPos, tokens, filterStream, mapStream, held, out, panic>>
  /\ UNCHANGED cvars

(***************************************************************************)
(* Classifier: New, Train, Classify, GetProb                               *)
(***************************************************************************)
\* No Tokenize call made yet by the goroutine.
NoPipe ==
  [input |-> <<>>, scanPos |-> 0,
   tokens |-> MakeChan(NewTokenizer.bufferSize),
   filterStream |-> MakeChan(defaultBufferSize),
   mapStream |-> MakeChan(defaultBufferSize),
   gpc |-> [scan |-> "off", filter |-> "off", map |-> "off"],
   held |-> [scan |-> <<>>, filter |-> <<>>, map |-> <<>>],
   panic |-> FALSE]

\* A classifier with the given maps, the lock free, no call in progress.
ClassifierWith(tokenCounts, categories) ==
  /\ MapTokenToCategory = tokenCounts
  /\ CategoriesCount = categories
  /\ mu = [w |-> NoProc, readers |-> {}]
  /\ pc = [p \in Procs |-> "idle"]
  /\ call = [p \in Procs |-> NoCall]
  /\ toks = [p \in Procs |-> <<>>]
  /\ cats = [p \in Procs |-> {}]
  /\ bestProb = [p \in Procs |-> Zero]
  /\ respCat = [p \in Procs |-> ""]
  /\ probs = [p \in Procs |-> EmptyMap]
  /\ result = [p \in Procs |-> NoResult]
  /\ snap = [p \in Procs |-> NoSnap]
  /\ trained = [c \in Categories |-> MapGet(categories, c)]
  /\ ncalls = 0
  /\ pipe = [p \in Procs |-> NoPipe]
  /\ textProb = [p \in Procs |-> One]
  /\ cur = [p \in Procs |-> ""]
  /\ started = [p \in Procs |-> 0]
  /\ catProb = [p \in Procs |-> Zero]

\* New(): both maps empty.
ClassifierInit == ClassifierWith(EmptyMap, EmptyMap)

\* The classifier after Train("кот", "animals") and Train("кот", "finance")
\* have returned.
ClassifierTrained ==
  ClassifierWith([t \in {DocKot} |-> [c \in {"animals", "finance"} |-> 1]],
                 [c \in {"animals", "finance"} |-> 1])

Maps == [tokens |-> MapTokenToCategory, categories |-> CategoriesCount]

\* Goroutines are interchangeable: a new call is made by the first idle one.
FirstIdle(p) == pc[p] = "idle" /\ \A q \in Procs : q < p => pc[q] # "idle"

\* A goroutine calls Train(trainData, category).
CallTrain(p) ==
  /\ FirstIdle(p)
  /\ ncalls < MaxCalls
  /\ \E d \in Docs, c \in Categories :
       call' = [call EXCEPT ![p] = [op |-> "Train", data |-> d, category |-> c]]
  /\ pc' = [pc EXCEPT ![p] = "train_lock"]
  /\ ncalls' = ncalls + 1
  /\ result' = [result EXCEPT ![p] = NoResult]
  /\ UNCHANGED <<MapTokenToCategory, CategoriesCount, mu, toks, cats, bestProb,
                 respCat, probs, snap, trained>>
  /\ UNCHANGED <<gvars, pvars>>

\* c.mu.Lock(), first half: the writer takes the writers' mutex and
\* announces itself; readers arriving from now on wait.
TrainLock(p) ==
  /\ pc[p] = "train_lock"
  /\ mu.w = NoProc
  /\ mu' = [mu EXCEPT !.w = p]
  /\ pc' = [pc EXCEPT ![p] = "train_wait"]
  /\ UNCHANGED <<MapTokenToCategory, CategoriesCount, call, toks, cats, bestProb,
                 respCat, probs, result, snap, trained, ncalls>>
  /\ UNCHANGED <<gvars, pvars>>

\* Faulty variant of TrainLocked: the writer does not wait for the readers.
TrainLockedIgnoringReaders(p) ==
  /\ pc[p] = "train_wait"
  /\ toks' = [toks EXCEPT ![p] = Tokenize[call[p].data]]
  /\ snap' = [snap EXCEPT ![p] = Maps]
  /\ pc' = [pc EXCEPT ![p] = "train_loop"]
  /\ UNCHANGED <<MapTokenToCategory, CategoriesCount, mu, call, cats, bestProb,
                 respCat, probs, result, trained, ncalls>>
  /\ UNCHANGED <<gvars, pvars>>

\* c.mu.Lock(), second half: the readers that hold the lock have left.
\* Then the range expression: c.tokenizer.Tokenize(trainData).
TrainLocked(p) ==
  /\ pc[p] = "train_wait"
  /\ mu.readers = {}
  /\ toks' = [toks EXCEPT ![p] = Tokenize[call[p].data]]
  /\ snap' = [snap EXCEPT ![p] = Maps]
  /\ pc' = [pc EXCEPT ![p] = "train_loop"]
  /\ UNCHANGED <<MapTokenToCategory, CategoriesCount, mu, call, cats, bestProb,
                 respCat, probs, result, trained, ncalls>>
  /\ UNCHANGED <<gvars, pvars>>

\* Faulty variant of TrainAddToken: the category is counted with each token.
TrainAddTokenAndCategory(p) ==
  /\ pc[p] = "train_loop"
  /\ toks[p] # <<>>
  /\ MapTokenToCategory' = addToken(Head(toks[p]), call[p].category)
  /\ CategoriesCount' = addCategory(call[p].category)
  /\ toks' = [toks EXCEPT ![p] = Tail(toks[p])]
  /\ UNCHANGED <<mu, pc, call, cats, bestProb, respCat, probs,
                 result, snap, trained, ncalls>>
  /\ UNCHANGED <<gvars, pvars>>

\* One iteration of the loop of Train: c.addToken(t, category).
TrainAddToken(p) ==
  /\ pc[p] = "train_loop"
  /\ toks[p] # <<>>
  /\ MapTokenToCategory' = addToken(Head(toks[p]), call[p].category)
  /\ toks' = [toks EXCEPT ![p] = Tail(toks[p])]
  /\ UNCHANGED <<CategoriesCount, mu, pc, call, cats, bestProb, respCat, probs,
                 result, snap, trained, ncalls>>
  /\ UNCHANGED <<gvars, pvars>>

\* Faulty variant of TrainAddCategory: a document without tokens is not counted.
TrainAddCategoryUnlessNoTokens(p) ==
  /\ pc[p] = "train_loop"
  /\ toks[p] = <<>>
  /\ CategoriesCount' = IF Tokenize[call[p].data] = <<>>
                        THEN CategoriesCount ELSE addCategory(call[p].category)
  /\ pc' = [pc EXCEPT ![p] = "train_ret"]
  /\ UNCHANGED <<MapTokenToCategory, mu, call, toks, cats, bestProb, respCat,
                 probs, result, snap, trained, ncalls>>
  /\ UNCHANGED <<gvars, pvars>>

\* The token channel is closed: c.addCategory(category).
TrainAddCategory(p) ==
  /\ pc[p] = "train_loop"
  /\ toks[p] = <<>>
  /\ CategoriesCount' = addCategory(call[p].category)
  /\ pc' = [pc EXCEPT ![p] = "train_ret"]
  /\ UNCHANGED <<MapTokenToCategory, mu, call, toks, cats, bestProb, respCat,
                 probs, result, snap, trained, ncalls>>
  /\ UNCHANGED <<gvars, pvars>>

\* return nil, and the deferred c.mu.Unlock().
TrainReturn(p) ==
  /\ pc[p] = "train_ret"
  /\ mu' = [mu EXCEPT !.w = NoProc]
  /\ result' = [result EXCEPT ![p] =
                  [NoResult EXCEPT !.op = "Train"]]
  /\ trained' = [trained EXCEPT ![call[p].category] = @ + 1]
  /\ snap' = [snap EXCEPT ![p] = NoSnap]
  /\ pc' = [pc EXCEPT ![p] = "idle"]
  /\ call' = [call EXCEPT ![p] = NoCall]
  /\ UNCHANGED <<MapTokenToCategory, CategoriesCount, toks, cats, bestProb,
                 respCat, probs, ncalls>>
  /\ UNCHANGED <<gvars, pvars>>

\* A goroutine calls Classify(data).
CallClassify(p) ==
  /\ FirstIdle(p)
  /\ ncalls < MaxCalls
  /\ \E d \in Docs :
       call' = [call EXCEPT ![p] = [op |-> "Classify", data |-> d, category |-> ""]]
  /\ pc' = [pc EXCEPT ![p] = "cls_entry"]
  /\ ncalls' = ncalls + 1
  /\ result' = [result EXCEPT ![p] = NoResult]
  /\ UNCHANGED <<MapTokenToCategory, CategoriesCount, mu, toks, cats, bestProb,
                 respCat, probs, snap, trained>>
  /\ UNCHANGED <<gvars, pvars>>

\* Faulty variant of ClassifyEmptyText: the check is made under the read lock.
ClassifyEmptyTextUnderLock(p) ==
  /\ pc[p] = "cls_entry"
  /\ call[p].data = <<>>
  /\ mu.w = NoProc
  /\ result' = [result EXCEPT ![p] =
                  [NoResult EXCEPT !.op = "Classify", !.err = ErrEmptyText,
                                   !.writer = mu.w]]
  /\ pc' = [pc EXCEPT ![p] = "idle"]
  /\ call' = [call EXCEPT ![p] = NoCall]
  /\ UNCHANGED <<MapTokenToCategory, CategoriesCount, mu, toks, cats, bestProb,
                 respCat, probs, snap, trained, ncalls>>
  /\ UNCHANGED <<gvars, pvars>>

\* if data == "" { return "", 0.0, ErrEmptyText }: before any lock.
ClassifyEmptyText(p) ==
  /\ pc[p] = "cls_entry"
  /\ call[p].data = <<>>
  /\ result' = [result EXCEPT ![p] =
                  [NoResult EXCEPT !.op = "Classify", !.err = ErrEmptyText,
                                   !.writer = mu.w]]
  /\ pc' = [pc EXCEPT ![p] = "idle"]
  /\ call' = [call EXCEPT ![p] = NoCall]
  /\ UNCHANGED <<MapTokenToCategory, CategoriesCount, mu, toks, cats, bestProb,
                 respCat, probs, snap, trained, ncalls>>
  /\ UNCHANGED <<gvars, pvars>>

\* c.mu.RLock(): no writer holds or awaits the lock.  Then
\* maxCoincidenceIndex := 0.0 and the range over c.getModelCategories().
ClassifyRLock(p) ==
  /\ pc[p] = "cls_entry"
  /\ call[p].data # <<>>
  /\ mu.w = NoProc
  /\ mu' = [mu EXCEPT !.readers = @ \cup {p}]
  /\ cats' = [cats EXCEPT ![p] = getModelCategories]
  /\ bestProb' = [bestProb EXCEPT ![p] = Zero]
  /\ respCat' = [respCat EXCEPT ![p] = ""]
  /\ snap' = [snap EXCEPT ![p] = Maps]
  /\ pc' = [pc EXCEPT ![p] = "cls_loop"]
  /\ UNCHANGED <<MapTokenToCategory, CategoriesCount, call, toks, probs, result,
                 trained, ncalls>>
  /\ UNCHANGED <<gvars, pvars>>

\* The loop of Classify or GetProb takes a category, in the order of a map
\* iteration, which is any order, and calls getProb: categoryProb is
\* computed, then getTextProb is called: prob := 1.0 and the range
\* expression c.tokenizer.Tokenize(data).
TextProbStart(p) ==
  /\ pc[p] \in {"cls_loop", "gp_loop"}
  /\ \E cat \in cats[p] : cur' = [cur EXCEPT ![p] = cat]
  /\ textProb' = [textProb EXCEPT ![p] = One]
  /\ catProb' = [catProb EXCEPT ![p] = categoryProb]
  /\ toks' = [toks EXCEPT ![p] = Tokenize[call[p].data]]
  /\ pc' = [pc EXCEPT ![p] = IF pc[p] = "cls_loop" THEN "cls_text" ELSE "gp_text"]
  /\ UNCHANGED <<MapTokenToCategory, CategoriesCount, mu, call, cats, bestProb,
                 respCat, probs, result, snap, trained, ncalls>>
  /\ UNCHANGED <<pipe, started, pvars>>

\* Faulty variant of TextProbToken: looking a token up creates its entry.
TextProbTokenInserting(p) ==
  /\ pc[p] \in {"cls_text", "gp_text"}
  /\ toks[p] # <<>>
  /\ textProb' = [textProb EXCEPT ![p] = RMul(@, getWeightedProb(Head(toks[p]), cur[p]))]
  /\ toks' = [toks EXCEPT ![p] = Tail(@)]
  /\ MapTokenToCategory' =
       [k \in DOMAIN MapTokenToCategory \cup {Head(toks[p])} |->
          IF k \in DOMAIN MapTokenToCategory THEN MapTokenToCategory[k] ELSE EmptyMap]
  /\ UNCHANGED <<CategoriesCount, mu, pc, call, cats, bestProb,
                 respCat, probs, result, snap, trained, ncalls>>
  /\ UNCHANGED <<pipe, cur, started, pvars>>
  /\ UNCHANGED catProb

\* The range of getTextProb receives a token: prob *= c.getWeightedProb(t, cat).
TextProbToken(p) ==
  /\ pc[p] \in {"cls_text", "gp_text"}
  /\ toks[p] # <<>>
  /\ textProb' = [textProb EXCEPT ![p] = RMul(@, getWeightedProb(Head(toks[p]), cur[p]))]
  /\ toks' = [toks EXCEPT ![p] = Tail(@)]
  /\ UNCHANGED <<MapTokenToCategory, CategoriesCount, mu, pc, call, cats, bestProb,
                 respCat, probs, result, snap, trained, ncalls>>
  /\ UNCHANGED <<pipe, cur, started, pvars>>
  /\ UNCHANGED catProb

\* The range of getTextProb ends; getProb returns docProb * categoryProb and
\* Classify compares it with maxCoincidenceIndex.
ClassifyScore(p) ==
  /\ pc[p] = "cls_text"
  /\ toks[p] = <<>>
  /\ LET catCI == RMul(textProb[p], catProb[p])
     IN  IF RLess(bestProb[p], catCI)
         THEN /\ bestProb' = [bestProb EXCEPT ![p] = catCI]
              /\ respCat' = [respCat EXCEPT ![p] = cur[p]]
         ELSE UNCHANGED <<bestProb, respCat>>
  /\ cats' = [cats EXCEPT ![p] = @ \ {cur[p]}]
  /\ textProb' = [textProb EXCEPT ![p] = One]
  /\ catProb' = [catProb EXCEPT ![p] = Zero]
  /\ cur' = [cur EXCEPT ![p] = ""]
  /\ pc' = [pc EXCEPT ![p] = "cls_loop"]
  /\ UNCHANGED <<MapTokenToCategory, CategoriesCount, mu, call, toks, probs,
                 result, snap, trained, ncalls>>
  /\ UNCHANGED <<pipe, started, pvars>>

\* What Classify returns after its loop.
classifyResult(data, guessedClass, maxCoincidenceIndex) ==
  IF guessedClass = ""
  THEN [NoResult EXCEPT !.op = "Classify", !.err = ErrNotClassified]
  ELSE [NoResult EXCEPT !.op = "Classify", !.label = guessedClass,
                        !.conf = maxCoincidenceIndex]

\* The return of Classify and the deferred c.mu.RUnlock().
ClassifyReturn(p) ==
  /\ pc[p] = "cls_loop"
  /\ cats[p] = {}
  /\ result' = [result EXCEPT ![p] = classifyResult(call[p].data, respCat[p], bestProb[p])]
  /\ mu' = [mu EXCEPT !.readers = @ \ {p}]
  /\ bestProb' = [bestProb EXCEPT ![p] = Zero]
  /\ respCat' = [respCat EXCEPT ![p] = ""]
  /\ snap' = [snap EXCEPT ![p] = NoSnap]
  /\ pc' = [pc EXCEPT ![p] = "idle"]
  /\ call' = [call EXCEPT ![p] = NoCall]
  /\ UNCHANGED <<MapTokenToCategory, CategoriesCount, toks, cats, probs, trained,
                 ncalls>>
  /\ UNCHANGED <<gvars, pvars>>

\* A goroutine calls GetProb(str).
CallGetProb(p) ==
  /\ FirstIdle(p)
  /\ ncalls < MaxCalls
  /\ \E d \in Docs :
       call' = [call EXCEPT ![p] = [op |-> "GetProb", data |-> d, category |-> ""]]
  /\ pc' = [pc EXCEPT ![p] = "gp_entry"]
  /\ ncalls' = ncalls + 1
  /\ result' = [result EXCEPT ![p] = NoResult]
  /\ UNCHANGED <<MapTokenToCategory, CategoriesCount, mu, toks, cats, bestProb,
                 respCat, probs, snap, trained>>
  /\ UNCHANGED <<gvars, pvars>>

\* probs := make(map), c.mu.RLock(), bestProb := 0.0, and the range over
\* c.getModelCategories().
GetProbRLock(p) ==
  /\ pc[p] = "gp_entry"
  /\ mu.w = NoProc
  /\ mu' = [mu EXCEPT !.readers = @ \cup {p}]
  /\ cats' = [cats EXCEPT ![p] = getModelCategories]
  /\ bestProb' = [bestProb EXCEPT ![p] = Zero]
  /\ respCat' = [respCat EXCEPT ![p] = ""]
  /\ probs' = [probs EXCEPT ![p] = EmptyMap]
  /\ snap' = [snap EXCEPT ![p] = Maps]
  /\ pc' = [pc EXCEPT ![p] = "gp_loop"]
  /\ UNCHANGED <<MapTokenToCategory, CategoriesCount, call, toks, result, trained,
                 ncalls>>
  /\ UNCHANGED <<gvars, pvars>>

\* Faulty variant of GetProbScore: every score is recorded, zero or not.
GetProbScoreKeepsZero(p) ==
  /\ pc[p] = "gp_text"
  /\ toks[p] = <<>>
  /\ LET prob == RMul(textProb[p], catProb[p])
     IN  /\ probs' = [probs EXCEPT ![p] =
                        [k \in DOMAIN @ \cup {cur[p]} |-> IF k = cur[p] THEN prob ELSE @[k]]]
         /\ IF RLess(bestProb[p], prob)
            THEN /\ bestProb' = [bestProb EXCEPT ![p] = prob]
                 /\ respCat' = [respCat EXCEPT ![p] = cur[p]]
            ELSE UNCHANGED <<bestProb, respCat>>
  /\ cats' = [cats EXCEPT ![p] = @ \ {cur[p]}]
  /\ textProb' = [textProb EXCEPT ![p] = One]
  /\ catProb' = [catProb EXCEPT ![p] = Zero]
  /\ cur' = [cur EXCEPT ![p] = ""]
  /\ pc' = [pc EXCEPT ![p] = "gp_loop"]
  /\ UNCHANGED <<MapTokenToCategory, CategoriesCount, mu, call, toks,
                 result, snap, trained, ncalls>>
  /\ UNCHANGED <<pipe, started, pvars>>

\* The range of getTextProb ends; getProb returns docProb * categoryProb and
\* GetProb records it if > 0 and compares it with bestProb.
GetProbScore(p) ==
  /\ pc[p] = "gp_text"
  /\ toks[p] = <<>>
  /\ LET prob == RMul(textProb[p], catProb[p])
     IN  /\ probs' = [probs EXCEPT ![p] =
                        IF RPos(prob)
                        THEN [k \in DOMAIN @ \cup {cur[p]} |-> IF k = cur[p] THEN prob ELSE @[k]]
                        ELSE @]
         /\ IF RLess(bestProb[p], prob)
            THEN /\ bestProb' = [bestProb EXCEPT ![p] = prob]
                 /\ respCat' = [respCat EXCEPT ![p] = cur[p]]
            ELSE UNCHANGED <<bestProb, respCat>>
  /\ cats' = [cats EXCEPT ![p] = @ \ {cur[p]}]
  /\ textProb' = [textProb EXCEPT ![p] = One]
  /\ catProb' = [catProb EXCEPT ![p] = Zero]
  /\ cur' = [cur EXCEPT ![p] = ""]
  /\ pc' = [pc EXCEPT ![p] = "gp_loop"]
  /\ UNCHANGED <<MapTokenToCategory, CategoriesCount, mu, call, toks,
                 result, snap, trained, ncalls>>
  /\ UNCHANGED <<pipe, started, pvars>>

\* return probs, respCat, and the deferred c.mu.RUnlock().
GetProbReturn(p) ==
  /\ pc[p] = "gp_loop"
  /\ cats[p] = {}
  /\ result' = [result EXCEPT ![p] =
                  [NoResult EXCEPT !.op = "GetProb", !.label = respCat[p], !.probs = probs[p]]]
  /\ mu' = [mu EXCEPT !.readers = @ \ {p}]
  /\ bestProb' = [bestProb EXCEPT ![p] = Zero]
  /\ respCat' = [respCat EXCEPT ![p] = ""]
  /\ probs' = [probs EXCEPT ![p] = EmptyMap]
  /\ snap' = [snap EXCEPT ![p] = NoSnap]
  /\ pc' = [pc EXCEPT ![p] = "idle"]
  /\ call' = [call EXCEPT ![p] = NoCall]
  /\ UNCHANGED <<MapTokenToCategory, CategoriesCount, toks, cats, trained, ncalls>>
  /\ UNCHANGED <<gvars, pvars>>

(***************************************************************************)
(* The calls with their Tokenize pipelines: every Tokenize call of Train   *)
(* and getTextProb starts three goroutines and the caller ranges over the  *)
(* channel it returns.                                                     *)
(***************************************************************************)
\* Calls made in this view of the classifier, and their arguments.  The
\* classifier starts fresh or trained with two categories (InitCalls), so a
\* Classify or GetProb call starts 0, 1 or 2 pipelines; the Train calls made
\* here name one category.
MaxPipeCalls == 2
PipeDocs == {DocEmpty, DocKot}
PipeCategories == {"animals"}

\* The words the Scan goroutine yields on the documents of the calls.
PipeWords ==
  UNION {{ScanWords(d, 0)[i] : i \in 1..Len(ScanWords(d, 0))} : d \in PipeDocs}

\* apply(text) of Filter and the mappers of Map, with the filters and the
\* transforms of the classifier's tokenizer, on each of those words.
FilterApply == [text \in PipeWords |-> apply(NewTokenizer.filters, text)]
MapTransforms == [v \in PipeWords |-> applyTransforms(NewTokenizer.transforms, v)]

\* c.tokenizer.Tokenize(d) has just returned: channels made, goroutines started.
Tokenizing(d) ==
  [input |-> d, scanPos |-> 0,
   tokens |-> MakeChan(NewTokenizer.bufferSize),
   filterStream |-> MakeChan(defaultBufferSize),
   mapStream |-> MakeChan(defaultBufferSize),
   gpc |-> [scan |-> "scan", filter |-> "recv", map |-> "recv"],
   held |-> [scan |-> <<>>, filter |-> <<>>, map |-> <<>>],
   panic |-> FALSE]

\* The goroutines of a pipeline have returned, its channels are closed.
Finished(r) ==
  /\ r.gpc.scan = "done" /\ r.gpc.filter = "done" /\ r.gpc.map = "done"
  /\ r.tokens.closes = 1 /\ r.filterStream.closes = 1 /\ r.mapStream.closes = 1

\* The goroutine has no pipeline, or one that is over and read to its end.
Quiet(r) ==
  \/ r = NoPipe
  \/ /\ Finished(r)
     /\ r.tokens.buf = <<>> /\ r.filterStream.buf = <<>> /\ r.mapStream.buf = <<>>
     /\ ~r.panic

SCallTrain(p) ==
  /\ FirstIdle(p)
  /\ ncalls < MaxPipeCalls
  /\ \E d \in PipeDocs, c \in PipeCategories :
       call' = [call EXCEPT ![p] = [op |-> "Train", data |-> d, category |-> c]]
  /\ pc' = [pc EXCEPT ![p] = "train_lock"]
  /\ ncalls' = ncalls + 1
  /\ result' = [result EXCEPT ![p] = NoResult]
  /\ started' = [started EXCEPT ![p] = 0]
  /\ UNCHANGED <<MapTokenToCategory, CategoriesCount, mu, toks, cats, bestProb,
                 respCat, probs, snap, trained, pipe, textProb, cur>>
  /\ UNCHANGED pvars
  /\ UNCHANGED catProb

SCallClassify(p) ==
  /\ FirstIdle(p)
  /\ ncalls < MaxPipeCalls
  /\ \E d \in PipeDocs :
       call' = [call EXCEPT ![p] = [op |-> "Classify", data |-> d, category |-> ""]]
  /\ pc' = [pc EXCEPT ![p] = "cls_entry"]
  /\ ncalls' = ncalls + 1
  /\ result' = [result EXCEPT ![p] = NoResult]
  /\ started' = [started EXCEPT ![p] = 0]
  /\ UNCHANGED <<MapTokenToCategory, CategoriesCount, mu, toks, cats, bestProb,
                 respCat, probs, snap, trained, pipe, textProb, cur>>
  /\ UNCHANGED pvars
  /\ UNCHANGED catProb

SCallGetProb(p) ==
  /\ FirstIdle(p)
  /\ ncalls < MaxPipeCalls
  /\ \E d \in PipeDocs :
       call' = [call EXCEPT ![p] = [op |-> "GetProb", data |-> d, category |-> ""]]
  /\ pc' = [pc EXCEPT ![p] = "gp_entry"]
  /\ ncalls' = ncalls + 1
  /\ result' = [result EXCEPT ![p] = NoResult]
  /\ started' = [started EXCEPT ![p] = 0]
  /\ UNCHANGED <<MapTokenToCategory, CategoriesCount, mu, toks, cats, bestProb,
                 respCat, probs, snap, trained, pipe, textProb, cur>>
  /\ UNCHANGED pvars
  /\ UNCHANGED catProb

\* Scan goroutine of p's pipeline: tokenizer.Scan() finds a word.
SScanScan(p) ==
  LET r == pipe[p]
  IN  /\ r.gpc.scan = "scan"
      /\ ScanHas(r.input, r.scanPos)
      /\ pipe' = [pipe EXCEPT ![p] =
                    [r EXCEPT !.held.scan = ScanText(r.input, r.scanPos),
                              !.scanPos = ScanNext(r.input, r.scanPos),
                              !.gpc.scan = "send"]]
      /\ UNCHANGED <<MapTokenToCategory, CategoriesCount, mu, pc, call, toks, cats,
                     bestProb, respCat, probs, result, snap, trained, ncalls,
                     textProb, cur, started>>
      /\ UNCHANGED pvars
      /\ UNCHANGED catProb

\* Scan goroutine: tokens <- tokenizer.Text(); a hand-off to the Filter
\* goroutine on an unbuffered channel, as in ScanSend.
SScanSend(p) ==
  LET r == pipe[p]
  IN  /\ r.gpc.scan = "send"
      /\ CanSend(r.tokens, r.gpc.filter = "recv")
      /\ pipe' = [pipe EXCEPT ![p] =
                    IF HandOff(r.tokens)
                    THEN IF FilterApply[r.held.scan]
                         THEN [r EXCEPT !.tokens.sent = @ + 1,
                                        !.held.filter = r.held.scan,
                                        !.held.scan = <<>>,
                                        !.gpc.scan = "scan",
                                        !.gpc.filter = "send"]
                         ELSE [r EXCEPT !.tokens.sent = @ + 1,
                                        !.held.scan = <<>>,
                                        !.gpc.scan = "scan"]
                    ELSE [r EXCEPT !.tokens = Send(r.tokens, r.held.scan),
                                   !.panic = (r.panic \/ r.tokens.closes > 0),
                                   !.held.scan = <<>>,
                                   !.gpc.scan = "scan"]]
      /\ UNCHANGED <<MapTokenToCategory, CategoriesCount, mu, pc, call, toks, cats,
                     bestProb, respCat, probs, result, snap, trained, ncalls,
                     textProb, cur, started>>
      /\ UNCHANGED pvars
      /\ UNCHANGED catProb

\* Scan goroutine: tokenizer.Scan() is false; close(tokens).
SScanClose(p) ==
  LET r == pipe[p]
  IN  /\ r.gpc.scan = "scan"
      /\ ~ScanHas(r.input, r.scanPos)
      /\ pipe' = [pipe EXCEPT ![p] =
                    [r EXCEPT !.tokens = Close(r.tokens),
                              !.panic = (r.panic \/ r.tokens.closes > 0),
                              !.gpc.scan = "done"]]
      /\ UNCHANGED <<MapTokenToCategory, CategoriesCount, mu, pc, call, toks, cats,
                     bestProb, respCat, probs, result, snap, trained, ncalls,
                     textProb, cur, started>>
      /\ UNCHANGED pvars
      /\ UNCHANGED catProb

\* Filter goroutine: text received from vs; apply(text) decides.
SFilterRecv(p) ==
  LET r == pipe[p]
  IN  /\ r.gpc.filter = "recv"
      /\ r.tokens.buf # <<>>
      /\ pipe' = [pipe EXCEPT ![p] =
                    IF FilterApply[Head(r.tokens.buf)]
                    THEN [r EXCEPT !.tokens.buf = Tail(@),
                                   !.held.filter = Head(r.tokens.buf),
                                   !.gpc.filter = "send"]
                    ELSE [r EXCEPT !.tokens.buf = Tail(@)]]
      /\ UNCHANGED <<MapTokenToCategory, CategoriesCount, mu, pc, call, toks, cats,
                     bestProb, respCat, probs, result, snap, trained, ncalls,
                     textProb, cur, started>>
      /\ UNCHANGED pvars
      /\ UNCHANGED catProb

\* Filter goroutine: stream <- text.
SFilterSend(p) ==
  LET r == pipe[p]
  IN  /\ r.gpc.filter = "send"
      /\ CanSend(r.filterStream, r.gpc.map = "recv")
      /\ pipe' = [pipe EXCEPT ![p] =
                    [r EXCEPT !.filterStream = Send(r.filterStream, r.held.filter),
                              !.panic = (r.panic \/ r.filterStream.closes > 0),
                              !.held.filter = <<>>,
                              !.gpc.filter = "recv"]]
      /\ UNCHANGED <<MapTokenToCategory, CategoriesCount, mu, pc, call, toks, cats,
                     bestProb, respCat, probs, result, snap, trained, ncalls,
                     textProb, cur, started>>
      /\ UNCHANGED pvars
      /\ UNCHANGED catProb

\* Filter goroutine: vs is closed and drained; close(stream).
SFilterClose(p) ==
  LET r == pipe[p]
  IN  /\ r.gpc.filter = "recv"
      /\ Drained(r.tokens)
      /\ pipe' = [pipe EXCEPT ![p] =
                    [r EXCEPT !.filterStream = Close(r.filterStream),
                              !.panic = (r.panic \/ r.filterStream.closes > 0),
                              !.gpc.filter = "done"]]
      /\ UNCHANGED <<MapTokenToCategory, CategoriesCount, mu, pc, call, toks, cats,
                     bestProb, respCat, probs, result, snap, trained, ncalls,
                     textProb, cur, started>>
      /\ UNCHANGED pvars
      /\ UNCHANGED catProb

\* Map goroutine: v received from vs; v = fn(v) for each mapper.
SMapRecv(p) ==
  LET r == pipe[p]
  IN  /\ r.gpc.map = "recv"
      /\ r.filterStream.buf # <<>>
      /\ pipe' = [pipe EXCEPT ![p] =
                    [r EXCEPT !.filterStream.buf = Tail(@),
                              !.held.map = MapTransforms[Head(r.filterStream.buf)],
                              !.gpc.map = "send"]]
      /\ UNCHANGED <<MapTokenToCategory, CategoriesCount, mu, pc, call, toks, cats,
                     bestProb, respCat, probs, result, snap, trained, ncalls,
                     textProb, cur, started>>
      /\ UNCHANGED pvars
      /\ UNCHANGED catProb

\* Map goroutine: stream <- v.
SMapSend(p) ==
  LET r == pipe[p]
  IN  /\ r.gpc.map = "send"
      /\ CanSend(r.mapStream, pc[p] \in {"train_range", "cls_text", "gp_text"})
      /\ pipe' = [pipe EXCEPT ![p] =
                    [r EXCEPT !.mapStream = Send(r.mapStream, r.held.map),
                              !.panic = (r.panic \/ r.mapStream.closes > 0),
                              !.held.map = <<>>,
                              !.gpc.map = "recv"]]
      /\ UNCHANGED <<MapTokenToCategory, CategoriesCount, mu, pc, call, toks, cats,
                     bestProb, respCat, probs, result, snap, trained, ncalls,
                     textProb, cur, started>>
      /\ UNCHANGED pvars
      /\ UNCHANGED catProb

\* Map goroutine: vs is closed and drained; close(stream).
SMapClose(p) ==
  LET r == pipe[p]
  IN  /\ r.gpc.map = "recv"
      /\ Drained(r.filterStream)
      /\ pipe' = [pipe EXCEPT ![p] =
                    [r EXCEPT !.mapStream = Close(r.mapStream),
                              !.panic = (r.panic \/ r.mapStream.closes > 0),
                              !.gpc.map = "done"]]
      /\ UNCHANGED <<MapTokenToCategory, CategoriesCount, mu, pc, call, toks, cats,
                     bestProb, respCat, probs, result, snap, trained, ncalls,
                     textProb, cur, started>>
      /\ UNCHANGED pvars
      /\ UNCHANGED catProb

\* c.mu.Lock() acquired; the range expression c.tokenizer.Tokenize(trainData).
STrainLocked(p) ==
  /\ pc[p] = "train_wait"
  /\ mu.readers = {}
  /\ pipe' = [pipe EXCEPT ![p] = Tokenizing(call[p].data)]
  /\ started' = [started EXCEPT ![p] = @ + 1]
  /\ snap' = [snap EXCEPT ![p] = Maps]
  /\ pc' = [pc EXCEPT ![p] = "train_range"]
  /\ UNCHANGED <<MapTokenToCategory, CategoriesCount, mu, call, toks, cats, bestProb,
                 respCat, probs, result, trained, ncalls, textProb, cur>>
  /\ UNCHANGED pvars
  /\ UNCHANGED catProb

\* The range of Train receives a token: c.addToken(t, category).
STrainAddToken(p) ==
  /\ pc[p] = "train_range"
  /\ pipe[p].mapStream.buf # <<>>
  /\ pipe' = [pipe EXCEPT ![p].mapStream.buf = Tail(@)]
  /\ MapTokenToCategory' = addToken(Head(pipe[p].mapStream.buf), call[p].category)
  /\ UNCHANGED <<CategoriesCount, mu, pc, call, toks, cats, bestProb, respCat, probs,
                 result, snap, trained, ncalls, textProb, cur, started>>
  /\ UNCHANGED pvars
  /\ UNCHANGED catProb

\* The range of Train ends, the channel being closed and drained, and the
\* channel is dropped: c.addCategory(category).
STrainAddCategory(p) ==
  /\ pc[p] = "train_range"
  /\ Drained(pipe[p].mapStream)
  /\ pipe' = [pipe EXCEPT ![p] = NoPipe]
  /\ CategoriesCount' = addCategory(call[p].category)
  /\ pc' = [pc EXCEPT ![p] = "train_ret"]
  /\ UNCHANGED <<MapTokenToCategory, mu, call, toks, cats, bestProb, respCat,
                 probs, result, snap, trained, ncalls, textProb, cur, started>>
  /\ UNCHANGED pvars
  /\ UNCHANGED catProb

\* The loop of Classify or GetProb takes a category and calls getProb:
\* categoryProb is computed, then getTextProb is called: prob := 1.0 and the
\* range expression c.tokenizer.Tokenize(data).
SGetTextProb(p) ==
  /\ pc[p] \in {"cls_loop", "gp_loop"}
  /\ \E cat \in cats[p] : cur' = [cur EXCEPT ![p] = cat]
  /\ textProb' = [textProb EXCEPT ![p] = One]
  /\ catProb' = [catProb EXCEPT ![p] = categoryProb]
  /\ pipe' = [pipe EXCEPT ![p] = Tokenizing(call[p].data)]
  /\ started' = [started EXCEPT ![p] = @ + 1]
  /\ pc' = [pc EXCEPT ![p] = IF pc[p] = "cls_loop" THEN "cls_text" ELSE "gp_text"]
  /\ UNCHANGED <<MapTokenToCategory, CategoriesCount, mu, call, toks, cats, bestProb,
                 respCat, probs, result, snap, trained, ncalls>>
  /\ UNCHANGED pvars

\* The range of getTextProb receives a token: prob *= c.getWeightedProb(t, cat).
STextProbToken(p) ==
  /\ pc[p] \in {"cls_text", "gp_text"}
  /\ pipe[p].mapStream.buf # <<>>
  /\ pipe' = [pipe EXCEPT ![p].mapStream.buf = Tail(@)]
  /\ textProb' = [textProb EXCEPT ![p] = RMul(@, getWeightedProb(Head(pipe[p].mapStream.buf), cur[p]))]
  /\ UNCHANGED <<MapTokenToCategory, CategoriesCount, mu, pc, call, toks, cats,
                 bestProb, respCat, probs, result, snap, trained, ncalls, cur, started>>
  /\ UNCHANGED pvars
  /\ UNCHANGED catProb

\* Faulty variant of SClassifyScore: the range stops as soon as the channel
\* is empty, closed or not.
SClassifyScoreWhenEmpty(p) ==
  /\ pc[p] = "cls_text"
  /\ pipe[p].mapStream.buf = <<>>
  /\ LET catCI == RMul(textProb[p], catProb[p])
     IN  IF RLess(bestProb[p], catCI)
         THEN /\ bestProb' = [bestProb EXCEPT ![p] = catCI]
              /\ respCat' = [respCat EXCEPT ![p] = cur[p]]
         ELSE UNCHANGED <<bestProb, respCat>>
  /\ cats' = [cats EXCEPT ![p] = @ \ {cur[p]}]
  /\ textProb' = [textProb EXCEPT ![p] = One]
  /\ catProb' = [catProb EXCEPT ![p] = Zero]
  /\ cur' = [cur EXCEPT ![p] = ""]
  /\ pc' = [pc EXCEPT ![p] = "cls_loop"]
  /\ UNCHANGED <<MapTokenToCategory, CategoriesCount, mu, call, toks, probs,
                 result, snap, trained, ncalls, pipe, started>>
  /\ UNCHANGED pvars

\* The range of getTextProb ends, the channel being closed and drained, and
\* the channel is dropped; getProb returns docProb * categoryProb and
\* Classify compares it.
SClassifyScore(p) ==
  /\ pc[p] = "cls_text"
  /\ Drained(pipe[p].mapStream)
  /\ LET catCI == RMul(textProb[p], catProb[p])
     IN  IF RLess(bestProb[p], catCI)
         THEN /\ bestProb' = [bestProb EXCEPT ![p] = catCI]
              /\ respCat' = [respCat EXCEPT ![p] = cur[p]]
         ELSE UNCHANGED <<bestProb, respCat>>
  /\ cats' = [cats EXCEPT ![p] = @ \ {cur[p]}]
  /\ pipe' = [pipe EXCEPT ![p] = NoPipe]
  /\ textProb' = [textProb EXCEPT ![p] = One]
  /\ catProb' = [catProb EXCEPT ![p] = Zero]
  /\ cur' = [cur EXCEPT ![p] = ""]
  /\ pc' = [pc EXCEPT ![p] = "cls_loop"]
  /\ UNCHANGED <<MapTokenToCategory, CategoriesCount, mu, call, toks, probs,
                 result, snap, trained, ncalls, started>>
  /\ UNCHANGED pvars

\* The same in GetProb, which also records a score > 0.
SGetProbScore(p) ==
  /\ pc[p] = "gp_text"
  /\ Drained(pipe[p].mapStream)
  /\ LET score == RMul(textProb[p], catProb[p])
     IN  /\ probs' = [probs EXCEPT ![p] =
                        IF RPos(score)
                        THEN [k \in DOMAIN @ \cup {cur[p]} |-> IF k = cur[p] THEN score ELSE @[k]]
                        ELSE @]
         /\ IF RLess(bestProb[p], score)
            THEN /\ bestProb' = [bestProb EXCEPT ![p] = score]
                 /\ respCat' = [respCat EXCEPT ![p] = cur[p]]
            ELSE UNCHANGED <<bestProb, respCat>>
  /\ cats' = [cats EXCEPT ![p] = @ \ {cur[p]}]
  /\ pipe' = [pipe EXCEPT ![p] = NoPipe]
  /\ textProb' = [textProb EXCEPT ![p] = One]
  /\ catProb' = [catProb EXCEPT ![p] = Zero]
  /\ cur' = [cur EXCEPT ![p] = ""]
  /\ pc' = [pc EXCEPT ![p] = "gp_loop"]
  /\ UNCHANGED <<MapTokenToCategory, CategoriesCount, mu, call, toks,
                 result, snap, trained, ncalls, started>>
  /\ UNCHANGED pvars

vars == <<cvars, pvars>>

\* The classifier, its tokenizer's output taken as TokenizeSeq.
Init == ClassifierInit /\ PipeOff

ClassifierNext ==
  \E p \in Procs :
    \/ CallTrain(p)
    \/ TrainLock(p)
    \/ TrainLocked(p)
    \/ TrainAddToken(p)
    \/ TrainAddCategory(p)
    \/ TrainReturn(p)
    \/ CallClassify(p)
    \/ ClassifyEmptyText(p)
    \/ ClassifyRLock(p)
    \/ TextProbStart(p)
    \/ TextProbToken(p)
    \/ ClassifyScore(p)
    \/ ClassifyReturn(p)
    \/ CallGetProb(p)
    \/ GetProbRLock(p)
    \/ GetProbScore(p)
    \/ GetProbReturn(p)

Next == ClassifierNext

Spec == Init /\ [][Next]_vars

\* One Tokenize call, followed goroutine by goroutine.
InitPipe == ClassifierInit /\ PipeInit

PipeNext ==
  \/ ScanScan
  \/ ScanSend
  \/ ScanClose
  \/ FilterRecv
  \/ FilterSend
  \/ FilterClose
  \/ MapRecv
  \/ MapSend
  \/ MapClose
  \/ ConsumerRecv
  \/ ConsumerEnd

NextPipe == PipeNext

SpecPipe == InitPipe /\ [][NextPipe]_vars

\* The Go scheduler runs every goroutine that can take a step, and the
\* consumer keeps receiving.
SpecPipeFair ==
  /\ SpecPipe
  /\ WF_vars(ScanStep)
  /\ WF_vars(FilterStep)
  /\ WF_vars(MapStep)
  /\ WF_vars(ConsumerStep)

\* One Tokenize call whose consumer may stop early.  The long text makes the
\* relay channels fill; it is run with the smallest source buffer.
InitAbandon ==
  /\ ClassifierInit
  /\ \/ \E b \in BufferSizes : PipeStart(TextABA, [NewTokenizer EXCEPT !.bufferSize = b])
     \/ PipeStart(TextLong, [NewTokenizer EXCEPT !.bufferSize = 1])

NextAbandon ==
  \/ ScanScan
  \/ ScanSend
  \/ ScanClose
  \/ FilterRecv
  \/ FilterSend
  \/ FilterClose
  \/ MapRecv
  \/ MapSend
  \/ MapClose
  \/ ConsumerRecvSome
  \/ ConsumerEnd
  \/ ConsumerAbandon

SpecAbandon == InitAbandon /\ [][NextAbandon]_vars

\* The classifier with the pipelines of its calls.
InitCalls == (ClassifierInit \/ ClassifierTrained) /\ PipeOff

NextCalls ==
  \E p \in Procs :
    \/ SScanScan(p)
    \/ SScanSend(p)
    \/ SScanClose(p)
    \/ SFilterRecv(p)
    \/ SFilterSend(p)
    \/ SFilterClose(p)
    \/ SMapRecv(p)
    \/ SMapSend(p)
    \/ SMapClose(p)
    \/ SCallTrain(p)
    \/ TrainLock(p)
    \/ STrainLocked(p)
    \/ STrainAddToken(p)
    \/ STrainAddCategory(p)
    \/ TrainReturn(p)
    \/ SCallClassify(p)
    \/ ClassifyEmptyText(p)
    \/ ClassifyRLock(p)
    \/ SCallGetProb(p)
    \/ GetProbRLock(p)
    \/ SGetTextProb(p)
    \/ STextProbToken(p)
    \/ SClassifyScore(p)
    \/ SGetProbScore(p)
    \/ ClassifyReturn(p)
    \/ GetProbReturn(p)

SpecCalls == InitCalls /\ [][NextCalls]_vars

\* The Go scheduler runs some goroutine whenever one can take a step: a
\* caller or a stage of a pipeline.
SpecCallsFair == SpecCalls /\ WF_vars(NextCalls)

(***************************************************************************)
(* Properties                                                              *)
(***************************************************************************)
\* The number of known categories.
NumCategories == Cardinality(DOMAIN CategoriesCount)

\* The tokens of a document, as the classifier's tokenizer yields them.
TokensOf(d) == Tokenize[d]

\* The categories some completed Train call named.
TrainedCategories == {c \in Categories : trained[c] > 0}

\* C1: in every model state with N >= 1 known categories, for every document
\* and every known category, getProb is textProb times the real quotient 1/N,
\* and for N >= 2 the prior factor is strictly positive.
C1_ScoreIsTextProbTimesRealPrior ==
  NumCategories >= 1 =>
    /\ \A d \in Docs : \A c \in DOMAIN CategoriesCount :
         getProb(d, c) = RMul(getTextProb(d, c), Rat(1, NumCategories))
    /\ NumCategories >= 2 => RPos(categoryProb)

HasRecordedToken(d) ==
  \E i \in 1..Len(TokensOf(d)) : TokensOf(d)[i] \in DOMAIN MapTokenToCategory

\* C2: once Train calls have trained at least two distinct categories,
\* Classify on a non-empty document that has a token recorded during
\* training returns no error, a trained category, and a confidence > 0.
C2_ClassifyKnownTokenSucceeds ==
  [][\A p \in Procs :
       (/\ ClassifyReturn(p)
        /\ Cardinality(TrainedCategories) >= 2
        /\ HasRecordedToken(call[p].data))
       => /\ result'[p].err = NoErr
          /\ result'[p].label \in TrainedCategories
          /\ RPos(result'[p].conf)]_vars

SomePositive(d) == \E c \in DOMAIN CategoriesCount : RPos(getProb(d, c))

IsMaxScore(d, c) ==
  /\ c \in DOMAIN CategoriesCount
  /\ \A k \in DOMAIN CategoriesCount : ~RLess(getProb(d, c), getProb(d, k))

\* C3: for a non-empty document, if some known category scores > 0 then
\* Classify returns a category of maximal score with that score, and it
\* fails with NoMatch exactly when no known category scores > 0; any
\* string, the empty one included, is a category.
C3_ClassifyReturnsMaxOrNoMatch ==
  [][\A p \in Procs :
       ClassifyReturn(p) =>
         /\ SomePositive(call[p].data) =>
              /\ result'[p].err = NoErr
              /\ IsMaxScore(call[p].data, result'[p].label)
              /\ result'[p].conf = getProb(call[p].data, result'[p].label)
         /\ result'[p].err = ErrNotClassified <=> ~SomePositive(call[p].data)]_vars

AllUnseen(d) ==
  \A i \in 1..Len(TokensOf(d)) : \A c \in DOMAIN CategoriesCount :
    TokenCount(TokensOf(d)[i], c) = 0

\* C4 as claimed: with at least one trained category, a non-empty document
\* all of whose tokens have count 0 in every known category scores 0 in
\* every category and Classify fails with NoMatch.
C4_UnseenDocumentIsNoMatch ==
  [][\A p \in Procs :
       (ClassifyReturn(p) /\ NumCategories >= 1 /\ AllUnseen(call[p].data))
       => /\ \A c \in DOMAIN CategoriesCount : getProb(call[p].data, c) = Zero
          /\ result'[p].err = ErrNotClassified]_vars

\* (0.001 / n) ^ k
RECURSIVE EpsilonPower(_, _)
EpsilonPower(n, k) ==
  IF k = 0 THEN One ELSE RMul(Rat(1, 1000 * n), EpsilonPower(n, k - 1))

\* C4 amended: with at least one trained category, a non-empty document all
\* of whose k tokens have count 0 in every known category has, in each of
\* the N known categories, the text probability (0.001/N)^k, which is > 0
\* (as long as the product does not underflow float64): unseen tokens do
\* not make a score 0.  With one known category, of a non-empty label,
\* Classify returns it with that confidence.
C4_UnseenDocumentHasPositiveTextProb ==
  [][\A p \in Procs :
       (ClassifyReturn(p) /\ NumCategories >= 1 /\ AllUnseen(call[p].data))
       => /\ \A c \in DOMAIN CategoriesCount :
               /\ getTextProb(call[p].data, c) =
                    EpsilonPower(NumCategories, Len(TokensOf(call[p].data)))
               /\ RPos(getTextProb(call[p].data, c))
          /\ \A c \in DOMAIN CategoriesCount :
               (NumCategories = 1 /\ c # "")
               => /\ result'[p].err = NoErr
                  /\ result'[p].label = c
                  /\ result'[p].conf = getTextProb(call[p].data, c)]_vars

\* C4 witness: Classify returned the only category with confidence 0.001
\* for a one-token document whose token no category has seen.
C4_Witness ==
  \E p \in Procs :
    /\ result[p].op = "Classify"
    /\ result[p].err = NoErr
    /\ result[p].conf = Rat(1, 1000)
    /\ NumCategories = 1
    /\ MapTokenToCategory = EmptyMap

EmptyTextPending(p) == pc[p] = "cls_entry" /\ call[p].data = <<>>

\* C5: in every reachable state, also while a Train holds the write lock,
\* a Classify call on the empty text can return, and its return is the
\* EmptyInput error with empty label and confidence 0, both maps unchanged.
C5_ClassifyEmptyAlwaysEmptyInput ==
  /\ [](\A p \in Procs : EmptyTextPending(p) => ENABLED ClassifyEmptyText(p))
  /\ [][\A p \in Procs :
          (EmptyTextPending(p) /\ pc'[p] # pc[p])
          => /\ pc'[p] = "idle"
             /\ result'[p].op = "Classify"
             /\ result'[p].err = ErrEmptyText
             /\ result'[p].label = ""
             /\ result'[p].conf = Zero
             /\ UNCHANGED <<MapTokenToCategory, CategoriesCount>>]_vars

\* C5 witness: Classify("") has returned EmptyInput while a Train that had
\* already recorded a token held the write lock.
C5_Witness ==
  \E p \in Procs :
    /\ result[p].op = "Classify"
    /\ result[p].err = ErrEmptyText
    /\ result[p].writer # NoProc
    /\ mu.w = result[p].writer
    /\ pc[mu.w] = "train_loop"
    /\ MapTokenToCategory # EmptyMap

Quiescent == \A p \in Procs : pc[p] = "idle"

\* C6: when every call has returned, CategoriesCount[c] is the number of
\* Train calls made with category c, for every category, whatever the
\* number of tokens of their documents.
C6_TrainingCountIsTrainCalls ==
  Quiescent => \A c \in Categories : MapGet(CategoriesCount, c) = trained[c]

\* The token records of category c.
RECURSIVE SumTokens(_, _)
SumTokens(S, c) ==
  IF S = {} THEN 0
  ELSE LET k == CHOOSE k \in S : TRUE
       IN  TokenCount(k, c) + SumTokens(S \ {k}, c)

\* C6 witness: all calls returned, a category trained twice whose documents
\* produced three tokens, another trained once with no token.
C6_Witness ==
  /\ Quiescent
  /\ \E c \in Categories :
       /\ MapGet(CategoriesCount, c) = 2
       /\ SumTokens(DOMAIN MapTokenToCategory, c) = 3
  /\ \E c \in Categories :
       /\ MapGet(CategoriesCount, c) = 1
       /\ SumTokens(DOMAIN MapTokenToCategory, c) = 0

\* The goroutine is between the RLock and the RUnlock of Classify or GetProb.
Reading(p) == pc[p] \in {"cls_loop", "cls_text", "gp_loop", "gp_text"}

\* C7: while a Classify or GetProb computation reads the model, the maps are
\* those it found when it took the read lock, no Train is between its lock
\* and its unlock, every category with a token count > 0 has a training
\* count >= 1, and the training counts are those of the completed Trains.
C7_ReadersSeeCompletedTrains ==
  \A p \in Procs :
    Reading(p) =>
      /\ snap[p] = Maps
      /\ \A q \in Procs : pc[q] \notin {"train_loop", "train_ret"}
      /\ \A tk \in DOMAIN MapTokenToCategory : \A c \in DOMAIN MapTokenToCategory[tk] :
           MapTokenToCategory[tk][c] > 0 => MapGet(CategoriesCount, c) >= 1
      /\ \A c \in Categories : MapGet(CategoriesCount, c) = trained[c]

\* C7 witness: a reader has computed a category's score from a trained
\* model and still holds the read lock, while a Train call waits for it.
C7_Witness ==
  \E p \in Procs, q \in Procs :
    /\ Reading(p)
    /\ Cardinality(cats[p]) < NumCategories
    /\ MapTokenToCategory # EmptyMap
    /\ pc[q] = "train_wait"

\* C8: across every step, each token count and each training count is left
\* as it is or grows by exactly 1, and no key leaves either map.
C8_CountsNeverDecrease ==
  [][/\ DOMAIN MapTokenToCategory \subseteq DOMAIN MapTokenToCategory'
     /\ DOMAIN CategoriesCount \subseteq DOMAIN CategoriesCount'
     /\ \A tk \in DOMAIN MapTokenToCategory :
          DOMAIN MapTokenToCategory[tk] \subseteq DOMAIN MapTokenToCategory'[tk]
     /\ \A tk \in DOMAIN MapTokenToCategory', c \in Categories :
          TokenCount(tk, c)' \in {TokenCount(tk, c), TokenCount(tk, c) + 1}
     /\ \A c \in Categories :
          MapGet(CategoriesCount, c)' \in
            {MapGet(CategoriesCount, c), MapGet(CategoriesCount, c) + 1}]_vars

\* C8 witness: a token counted twice in one category and also in another.
C8_Witness ==
  \E tk \in DOMAIN MapTokenToCategory : \E c, k \in DOMAIN MapTokenToCategory[tk] :
    /\ c # k
    /\ MapTokenToCategory[tk][c] >= 2
    /\ MapTokenToCategory[tk][k] >= 1

\* s is an initial segment of u.
IsPrefix(s, u) == Len(s) <= Len(u) /\ s = SubSeq(u, 1, Len(s))

\* Where the words of a text begin.
WordStarts(text) ==
  {i \in 1..Len(text) : ~isSpace(text[i]) /\ (i = 1 \/ isSpace(text[i - 1]))}

\* The whitespace-delimited words of a text, in their order.
WordsOf(text) ==
  LET st == WordStarts(text)
      nth(k) == CHOOSE i \in st : Cardinality({j \in st : j < i}) = k - 1
  IN  [k \in 1..Cardinality(st) |-> SubSeq(text, nth(k), WordEnd(text, nth(k)) - 1)]

\* The whitespace-delimited words of the text that pass every filter, in
\* their order, each with the transforms applied in list order.
ExpectedTokens ==
  LET Pass(w) == \A k \in 1..Len(tokenizer.filters) : applyPredicate(tokenizer.filters[k], w)
      kept == SelectSeq(WordsOf(input), Pass)
  IN  [i \in 1..Len(kept) |-> applyTransforms(tokenizer.transforms, kept[i])]

\* C9: under every interleaving of the stages, what the consumer has read
\* is an initial segment of the expected tokens, and all of them once the
\* channel is closed and drained; "A b A" with the default settings yields
\* a, b, a.
C9_TokenizeYieldsFilteredMappedWords ==
  /\ IsPrefix(out, ExpectedTokens)
  /\ gpc.consumer = "done" => out = ExpectedTokens
  /\ (/\ gpc.consumer = "done"
      /\ input = TextABA
      /\ tokenizer.filters = NewTokenizer.filters
      /\ tokenizer.transforms = NewTokenizer.transforms)
     => out = <<<<97>>, <<98>>, <<97>>>>

\* The number of elements each stage sends in all.
ScanTotal == Len(ScanWords(input, 0))
FilterTotal == Len(FilterSeq(ScanWords(input, 0), tokenizer.filters))

PipelineTerminated ==
  /\ gpc.scan = "done" /\ gpc.filter = "done" /\ gpc.map = "done"
  /\ tokens.closes = 1 /\ filterStream.closes = 1 /\ mapStream.closes = 1

\* C10: with a consumer that keeps receiving and fair scheduling, the output
\* channel is eventually closed and the three stage goroutines terminate;
\* each channel is closed at most once, only by its finished producer after
\* its last send, and nothing is sent after the close; for the empty text
\* no token is ever delivered.
C10_PipelineTerminatesAndClosesOnce ==
  /\ <>(PipelineTerminated /\ gpc.consumer = "done")
  /\ [](/\ ~panic
        /\ tokens.closes <= 1 /\ filterStream.closes <= 1 /\ mapStream.closes <= 1
        /\ tokens.closes = 1 => (gpc.scan = "done" /\ tokens.sent = ScanTotal)
        /\ filterStream.closes = 1 =>
             (gpc.filter = "done" /\ filterStream.sent = FilterTotal)
        /\ mapStream.closes = 1 => (gpc.map = "done" /\ mapStream.sent = FilterTotal)
        /\ input = <<>> => (out = <<>> /\ mapStream.sent = 0))
  /\ [][/\ tokens.closes = 1 => tokens'.sent = tokens.sent
        /\ filterStream.closes = 1 => filterStream'.sent = filterStream.sent
        /\ mapStream.closes = 1 => mapStream'.sent = mapStream.sent]_vars

\* C10 witness: the pipeline of a text with three words has ended, each
\* channel closed once, the consumer's range over.
C10_Witness ==
  /\ PipelineTerminated
  /\ gpc.consumer = "done"
  /\ tokens.closes = 1 /\ filterStream.closes = 1
  /\ tokens.sent >= 3
  /\ out # <<>>

\* The consumer has stopped receiving before the sequence ended.
Stopped == gpc.consumer = "stopped"

\* The number of tokens of the whole sequence: the words that pass every filter.
SequenceLength ==
  Cardinality({i \in WordStarts(input) : apply(tokenizer.filters, ScanText(input, i - 1))})

\* Tokens of the sequence the consumer has not received.
Undelivered == SequenceLength - Len(out)

\* A stage is at its send and the channel it writes to is full; for the
\* scan on an unbuffered channel, Filter is not waiting at its receive.
MapBlocked == gpc.map = "send" /\ Len(mapStream.buf) = mapStream.cap
FilterBlocked == gpc.filter = "send" /\ Len(filterStream.buf) = filterStream.cap
ScanBlocked ==
  /\ gpc.scan = "send"
  /\ Len(tokens.buf) = tokens.cap
  /\ tokens.cap = 0 => gpc.filter # "recv"

StagesDone == gpc.scan = "done" /\ gpc.filter = "done" /\ gpc.map = "done"

\* C11 as claimed: once the consumer has stopped receiving before the
\* sequence ended, no upstream stage terminates any more.
C11_AbandonedStagesNeverTerminate ==
  [][Stopped =>
       /\ gpc.scan # "done" => gpc'.scan # "done"
       /\ gpc.filter # "done" => gpc'.filter # "done"
       /\ gpc.map # "done" => gpc'.map # "done"]_vars

\* C11: nothing stops the stages when the consumer stops early, and they go
\* on as far as the queues have room.  Map terminates only if at most 50
\* tokens are undelivered, Filter only if at most 50 + 1 + 50, the scan only
\* if at most 50 + 1 + 50 + 1 + bufferSize; until the stages have terminated
\* or Map is blocked on the full output queue, some stage can take a step;
\* and a stage blocked on a full queue behind the stopped consumer stays
\* blocked for ever.
C11_AbandonedStagesBlockOnlyOnFullQueues ==
  /\ [](Stopped =>
          /\ gpc.map = "done" => Undelivered <= mapStream.cap
          /\ gpc.filter = "done" => Undelivered <= mapStream.cap + 1 + filterStream.cap
          /\ gpc.scan = "done"
               => Undelivered <= mapStream.cap + 1 + filterStream.cap + 1 + tokens.cap)
  /\ [](Stopped /\ ~StagesDone /\ ~MapBlocked
          => ENABLED (ScanStep \/ FilterStep \/ MapStep))
  /\ [][/\ Stopped /\ MapBlocked => MapBlocked'
        /\ Stopped /\ MapBlocked /\ FilterBlocked => FilterBlocked'
        /\ Stopped /\ MapBlocked /\ FilterBlocked /\ ScanBlocked => ScanBlocked']_vars

\* C11 witness: the consumer stopped and all three stages are blocked on
\* full queues.
C11_Witness ==
  /\ Stopped
  /\ MapBlocked /\ FilterBlocked /\ ScanBlocked
  /\ Len(mapStream.buf) = defaultBufferSize
  /\ Len(filterStream.buf) = defaultBufferSize

\* C17: the source channel never holds more than the configured buffer size
\* (100 for the standard tokenizer) and a relay channel never more than 50;
\* a stage at its send with a full output channel sends nothing and stays at
\* its send, and leaves it only after that channel has lost an element to
\* the stage downstream (on an unbuffered source channel: only in the step
\* in which Filter, waiting at its receive, takes the word); nothing is sent
\* on a channel after its close.
C17_ChannelsBoundedAndBackpressure ==
  /\ NewTokenizer.bufferSize = 100
  /\ [](/\ tokens.cap = tokenizer.bufferSize
         /\ Len(tokens.buf) <= tokenizer.bufferSize
         /\ Len(filterStream.buf) <= 50
         /\ Len(mapStream.buf) <= 50
         /\ ~panic)
  /\ [][/\ ScanBlocked =>
             /\ gpc'.scan = "send" /\ tokens'.sent = tokens.sent
             /\ \/ ScanBlocked'
                \/ Len(tokens'.buf) < Len(tokens.buf)
                \/ tokens.cap = 0 /\ gpc'.filter = "recv"
        /\ (tokens.cap = 0 /\ tokens'.sent # tokens.sent) =>
             /\ gpc.scan = "send" /\ gpc.filter = "recv"
             /\ gpc'.filter = "send" \/ ~apply(tokenizer.filters, held.scan)
        /\ FilterBlocked =>
             /\ gpc'.filter = "send" /\ filterStream'.sent = filterStream.sent
             /\ FilterBlocked' \/ Len(filterStream'.buf) < Len(filterStream.buf)
        /\ MapBlocked =>
             /\ gpc'.map = "send" /\ mapStream'.sent = mapStream.sent
             /\ MapBlocked' \/ Len(mapStream'.buf) < Len(mapStream.buf)
        /\ tokens.closes > 0 => tokens'.sent = tokens.sent
        /\ filterStream.closes > 0 => filterStream'.sent = filterStream.sent
        /\ mapStream.closes > 0 => mapStream'.sent = mapStream.sent]_vars

\* C17 witness: with the consumer still receiving, both relay channels hold
\* 50 tokens, the source channel is full, and every stage waits at its send.
C17_Witness ==
  /\ gpc.consumer = "recv"
  /\ Len(out) > 0
  /\ Len(filterStream.buf) = 50 /\ Len(mapStream.buf) = 50
  /\ ScanBlocked /\ FilterBlocked /\ MapBlocked

\* A linear scan of the stop word list as it is declared.
Listed(w) == \E i \in 1..Len(stopwords) : stopwords[i] = ToLower(w)

\* The words of the text that are not listed, lowercased, in their order.
UnlistedWords ==
  LET NotListed(w) == ~Listed(w)
      kept == SelectSeq(ScanWords(input, 0), NotListed)
  IN  [i \in 1..Len(kept) |-> ToLower(kept[i])]

\* C12: for every word of the text, IsStopWord is true exactly when the
\* lowercased word is an element of the stop word list, and IsNotStopWord is
\* its negation; so what Tokenize with the default settings delivers is the
\* text's words minus the listed ones, in lower case.
C12_StopWordIffListed ==
  gpc.consumer = "done" =>
    /\ \A i \in 1..Len(ScanWords(input, 0)) :
         LET w == ScanWords(input, 0)[i]
         IN  /\ IsStopWord(w) <=> Listed(w)
             /\ IsNotStopWord(w) <=> ~IsStopWord(w)
    /\ tokenizer = NewTokenizer => out = UnlistedWords

\* C16: when the search for a word ends at the length of the list,
\* IsStopWord is false, so the default filter lets the word through.
C16_PastTheEndIsNotFound ==
  [][(/\ FilterRecv
      /\ tokenizer.filters = <<"IsNotStopWord">>
      /\ IsStopWordIndex(Head(tokens.buf)) = numStopwords)
       => /\ ~IsStopWord(Head(tokens.buf))
          /\ held'.filter = Head(tokens.buf)
          /\ gpc'.filter = "send"]_vars

\* What a call returns to its caller: label, confidence, error.
Returned(r) == <<r.label, r.conf, r.err>>

\* The result of Classify as a function of the model and the document alone.
ClassifyOutcome(d) ==
  IF d = <<>> THEN <<"", Zero, ErrEmptyText>>
  ELSE IF ~SomePositive(d) THEN <<"", Zero, ErrNotClassified>>
  ELSE LET best == CHOOSE c \in DOMAIN CategoriesCount : IsMaxScore(d, c)
       IN  IF best = "" THEN <<"", Zero, ErrNotClassified>>
           ELSE <<best, getProb(d, best), NoErr>>

\* A Classify call has gone through all the categories.
LoopDone(p) == pc[p] = "cls_loop" /\ cats[p] = {}

\* C13: what Classify returns is determined by the model and the document,
\* whatever the order in which the categories were iterated; so two calls
\* on the same document with no Train between them return the same label,
\* confidence and error, and two calls that run side by side on the same
\* document end their loops with the same result.
C13_ClassifyIsDeterministic ==
  /\ [][\A p \in Procs :
          (ClassifyReturn(p) \/ ClassifyEmptyText(p))
            => Returned(result'[p]) = ClassifyOutcome(call[p].data)]_vars
  /\ [](\A p, q \in Procs :
          (LoopDone(p) /\ LoopDone(q) /\ call[p].data = call[q].data)
            => classifyResult(call[p].data, respCat[p], bestProb[p])
                 = classifyResult(call[q].data, respCat[q], bestProb[q]))

\* C13 witness: a Classify call has gone through two categories that have
\* the same, maximal, score for a document with a trained token.
C13_Witness ==
  \E p \in Procs :
    /\ LoopDone(p)
    /\ HasRecordedToken(call[p].data)
    /\ \E c, k \in DOMAIN CategoriesCount :
         /\ c # k
         /\ IsMaxScore(call[p].data, c) /\ IsMaxScore(call[p].data, k)

\* C14: GetProb returns no error, a map whose keys are exactly the known
\* categories of score > 0, each with its score, and a label that is a key
\* of the map with the maximal score; when no category has a score > 0 the
\* map is empty and the label is the empty string.
C14_GetProbReturnsPositiveScores ==
  [][\A p \in Procs :
       GetProbReturn(p) =>
         LET d == call[p].data
             r == result'[p]
             positive == {c \in DOMAIN CategoriesCount : RPos(getProb(d, c))}
         IN  /\ r.err = NoErr
             /\ DOMAIN r.probs = positive
             /\ \A c \in positive : r.probs[c] = getProb(d, c)
             /\ positive # {} => r.label \in positive /\ IsMaxScore(d, r.label)
             /\ positive = {} => r.label = "" /\ r.probs = EmptyMap]_vars

\* C14 witness: GetProb has returned a non-empty map and a label in it.
C14_Witness ==
  \E p \in Procs :
    /\ result[p].op = "GetProb"
    /\ result[p].probs # EmptyMap
    /\ result[p].label \in DOMAIN result[p].probs
    /\ RLess(result[p].probs[result[p].label], One)

\* The training counts after one more Train of category cat.
CountedOnce(m, cat) ==
  [k \in DOMAIN m \cup {cat} |-> IF k = cat THEN MapGet(m, cat) + 1 ELSE m[k]]

\* C15: Train returns no error, whatever the document and the category; and
\* when the document yields no token, the maps Train leaves are those it
\* found when it took the lock, with the training count of its category
\* one higher and the token counts the same.
C15_TrainNeverFailsAndCountsEmptyDocs ==
  [][\A p \in Procs :
       TrainReturn(p) =>
         /\ result'[p].op = "Train"
         /\ result'[p].err = NoErr
         /\ TokensOf(call[p].data) = <<>> =>
              /\ MapTokenToCategory' = snap[p].tokens
              /\ CategoriesCount' = CountedOnce(snap[p].categories, call[p].category)]_vars

\* C15 witness: a Train of the empty category with a document of stop words
\* only is about to return, in a model that has token records.
C15_Witness ==
  \E p \in Procs :
    /\ pc[p] = "train_ret"
    /\ call[p].data = DocNa
    /\ call[p].category = ""
    /\ MapTokenToCategory # EmptyMap
    /\ MapGet(snap[p].categories, "") = 1

\* Sum of f over the set S.
RECURSIVE Sigma(_, _)
Sigma(f, S) ==
  IF S = {} THEN 0
  ELSE LET k == CHOOSE k \in S : TRUE IN f[k] + Sigma(f, S \ {k})

\* totalSeen: the count of the token over the known categories.
TotalSeen(t) ==
  Sigma([k \in DOMAIN CategoriesCount |-> TokenCount(t, k)], DOMAIN CategoriesCount)

\* The weighted probability as the formula gives it.
WeightedProbFormula(t, c) ==
  LET seen == TotalSeen(t)
      weight == IF seen > 0 THEN FromInt(seen) ELSE Rat(1, 1000)
      tokenProb == IF MapGet(CategoriesCount, c) = 0 THEN Zero
                   ELSE Rat(TokenCount(t, c), MapGet(CategoriesCount, c))
  IN  RDiv(RAdd(RMul(weight, Rat(1, NumCategories)), RMul(FromInt(seen), tokenProb)),
           FromInt(1 + seen))

RECURSIVE ProductFormula(_, _)
ProductFormula(ts, c) ==
  IF ts = <<>> THEN One
  ELSE RMul(WeightedProbFormula(Head(ts), c), ProductFormula(Tail(ts), c))

\* The tokens the documents can yield.
Vocabulary == UNION {{TokensOf(d)[i] : i \in 1..Len(TokensOf(d))} : d \in Docs}

\* C18: when a Classify or GetProb computation over a model with N >= 1
\* known categories returns, for every token of its document and every
\* category, getWeightedProb is (TotalWeight * (1/N) + totalSeen *
\* tokenProb) / (1 + totalSeen), with TotalWeight the total count or 0.001
\* when that is 0, and tokenProb the count over the training count or 0
\* when the training count is 0; and getTextProb is the product of these
\* values over the tokens of the document, and 1 when there is none, which
\* is also the value its range has accumulated when it ends.
C18_WeightedProbFormula ==
  [][\A p \in Procs :
       /\ (Reading(p) /\ pc'[p] = "idle" /\ NumCategories >= 1) =>
            LET ts == TokensOf(call[p].data)
            IN  \A c \in Categories :
                  /\ \A i \in 1..Len(ts) :
                       getWeightedProb(ts[i], c) = WeightedProbFormula(ts[i], c)
                  /\ getTextProb(call[p].data, c) = ProductFormula(ts, c)
                  /\ ts = <<>> => getTextProb(call[p].data, c) = One
       /\ (pc[p] \in {"cls_text", "gp_text"} /\ pc'[p] \in {"cls_loop", "gp_loop"}) =>
            textProb[p] = ProductFormula(TokensOf(call[p].data), cur[p])]_vars

\* C18 witness: a Classify call reads a model of two categories for a
\* document with a token seen in training and a token never seen, and a
\* category has been trained twice.
C18_Witness ==
  \E p \in Procs :
    /\ pc[p] = "cls_loop"
    /\ NumCategories = 2
    /\ \E i, j \in 1..Len(TokensOf(call[p].data)) :
         /\ TotalSeen(TokensOf(call[p].data)[i]) > 0
         /\ TotalSeen(TokensOf(call[p].data)[j]) = 0

\* C19: the model starts with both maps empty; a step changes the maps only
\* if it is the addToken or the addCategory of a Train; no step of a
\* goroutine inside Classify or GetProb changes them; and when Classify or
\* GetProb returns, the maps, key sets included, are those it found when it
\* took the read lock.
C19_OnlyTrainChangesTheModel ==
  /\ Maps = [tokens |-> EmptyMap, categories |-> EmptyMap]
  /\ [][/\ Maps' # Maps => \E p \in Procs : TrainAddToken(p) \/ TrainAddCategory(p)
        /\ \A p \in Procs :
             (/\ call[p].op \in {"Classify", "GetProb"}
              /\ pc'[p] # pc[p] \/ cats'[p] # cats[p] \/ toks'[p] # toks[p])
               => /\ Maps' = Maps
                  /\ (Reading(p) /\ pc'[p] = "idle") => Maps' = snap[p]]_vars

\* C19 witness: in a trained model, GetProb has returned and a Classify call
\* has gone through the categories for a document with a token the model
\* has never seen.
C19_Witness ==
  \E p, q \in Procs :
    /\ LoopDone(p)
    /\ result[q].op = "GetProb"
    /\ MapTokenToCategory # EmptyMap
    /\ \E i \in 1..Len(TokensOf(call[p].data)) :
         TokensOf(call[p].data)[i] \notin DOMAIN MapTokenToCategory

\* The goroutine holds the reader-writer lock, as the writer or as a reader.
HoldsLock(p) ==
  \/ mu.w = p /\ pc[p] \in {"train_range", "train_ret"}
  \/ p \in mu.readers

\* The goroutine is ranging over the channel of a Tokenize call.
Ranging(p) == pc[p] \in {"train_range", "cls_text", "gp_text"}

\* The range of the goroutine ends in this step.
RangeEnds(p) == Ranging(p) /\ pc'[p] # pc[p]

\* The Tokenize calls the call of the goroutine makes in all.
PipelinesOf(p) ==
  IF call[p].op = "Train" THEN 1
  ELSE IF call[p].op = "Classify" /\ call[p].data = <<>> THEN 0
  ELSE Cardinality(DOMAIN snap[p].categories)

\* C20: with a finite number of concurrent Train, Classify and GetProb
\* calls, on a fresh classifier or on one trained with two categories, and a
\* scheduler that runs a goroutine whenever one can take a step (in
\* particular one that is fair to each), every call returns (each goroutine
\* is out of its call again and again) and in the end nobody holds the lock;
\* a goroutine that is not in a call holds no lock; a pipeline exists only
\* while its caller ranges over it with the lock held, also when the other
\* goroutine ranges over a pipeline of its own at the same time; when the
\* range ends, the channel is closed and drained and the three stage
\* goroutines have returned; and a call has made one Tokenize call if it is
\* a Train, and one per known category if it is a Classify or a GetProb
\* that took the lock.
C20_CallsReturnAndDrainTheirPipelines ==
  /\ \A p \in Procs : []<>(pc[p] = "idle")
  /\ <>[](mu = [w |-> NoProc, readers |-> {}] /\ \A p \in Procs : pc[p] = "idle")
  /\ [](\A p \in Procs :
          /\ pc[p] = "idle" => ~HoldsLock(p)
          /\ pipe[p] # NoPipe => Ranging(p) /\ HoldsLock(p)
          /\ ~pipe[p].panic)
  /\ [][\A p \in Procs :
          /\ RangeEnds(p) => Quiet(pipe[p]) /\ pipe[p] # NoPipe /\ pipe'[p] = NoPipe
          /\ (pc[p] # "idle" /\ pc'[p] = "idle") => started[p] = PipelinesOf(p)]_vars

\* C20 witness: two calls run at once on a classifier with two categories,
\* both under the read lock and each ranging over a pipeline whose stage
\* goroutines are still running: a Classify call on the pipeline of its
\* second category, and a GetProb call that has finished one category.
C20_Witness ==
  \E p, q \in Procs :
    /\ p # q
    /\ mu.readers = {p, q}
    /\ call[p].op = "Classify" /\ pc[p] = "cls_text"
    /\ call[q].op = "GetProb" /\ pc[q] = "gp_text"
    /\ Cardinality(DOMAIN snap[p].categories) = 2
    /\ started[p] = 2
    /\ Cardinality(cats[q]) = 1
    /\ pipe[p] # NoPipe /\ ~Finished(pipe[p]) /\ pipe[p].gpc.map = "send"
    /\ pipe[q] # NoPipe /\ ~Finished(pipe[q]) /\ pipe[q].gpc.filter = "send"

=============================================================================
